---- MODULE Spec2Model ----
(***************************************************************************)
(* The realtime messaging core of domz: the Socket.IO connection handler   *)
(* (server.js), the Friendship and Message models, and the HTTP routes of  *)
(* routes/messages.js and routes/friends.js that touch the same stores.    *)
(*                                                                         *)
(* Every `await` of a handler is a suspension point: a handler is a record *)
(* in hs with a program counter, and one action runs it from one await to  *)
(* the next.  A store call is applied atomically by the store at the step  *)
(* that leaves the await; a rejected call changes nothing and runs the     *)
(* handler's catch block.                                                  *)
(*                                                                         *)
(* Ids, room names and message contents are strings, modelled as sequences *)
(* of UTF-16 code units, so that sort(), join('-') and trim() are computed *)
(* as the code computes them.  The empty string stands for a missing or    *)
(* empty payload field (both are falsy in the handlers' checks).           *)
(***************************************************************************)
EXTENDS Integers, Sequences, FiniteSets, TLC

\* Bounds of the model.
MaxEvents == 2      \* handlers started in one behaviour
MaxClock == 1       \* the clock stops advancing here

Null == <<>>

\* User documents of the store ("a", "b", "c").
U1 == <<97>>
U2 == <<98>>
U3 == <<99>>
UserIds == {U1, U2, U3}

\* Ids a client may put in a payload that name no user: "a-a", "a-b".
Uaa == <<97, 45, 97>>
Uab == <<97, 45, 98>>

\* The id of U1 written with an upper-case hex digit: "A".
U1Upper == <<65>>

\* socket.id of the two connections.
S1 == <<49>>
S2 == <<50>>
Sockets == {S1, S2}

\* socket.id of a third connection, open only where a specification says so.
S3 == <<51>>

\* Message contents a client may send: "", " ", "h", " h ".
Contents == {<<>>, <<32>>, <<104>>, <<32, 104, 32>>}

VARIABLES
  now,          \* the wall clock read by new Date() / Date.now
  users,        \* User collection: id -> [isOnline, lastSeen, socketId]
  messages,     \* Message collection in insertion order; the index is _id
  friendships,  \* Friendship collection: set of [id, requester, recipient, status]
  conn,         \* per socket: [st, currentUser, rooms]
  hs,           \* handlers started so far, each with its pc and locals
  log,          \* every emit made by the server, in order
  posts         \* Post collection: id -> [author, visibility, likes, v]

vars == <<now, users, messages, friendships, conn, hs, log, posts>>

-----------------------------------------------------------------------------
\* Strings.

RECURSIVE LexLess(_, _)
\* x < y in the order Array.prototype.sort() uses (UTF-16 code units).
LexLess(x, y) ==
  IF y = <<>> THEN FALSE
  ELSE IF x = <<>> THEN TRUE
  ELSE IF Head(x) # Head(y) THEN Head(x) < Head(y)
  ELSE LexLess(Tail(x), Tail(y))

\* A pair left in the order the client gave it.
SortPairAsGiven(x, y) == <<x, y>>

SortPair(x, y) == IF LexLess(y, x) THEN <<y, x>> ELSE <<x, y>>

\* [senderId, recipientId].sort().join('-')
ChatRoom(senderId, recipientId) ==
  LET p == SortPair(senderId, recipientId) IN p[1] \o <<45>> \o p[2]

IsSpace(ch) == ch = 32

RECURSIVE TrimStart(_)
TrimStart(c) == IF c # <<>> /\ IsSpace(Head(c)) THEN TrimStart(Tail(c)) ELSE c

RECURSIVE TrimEnd(_)
TrimEnd(c) ==
  IF c # <<>> /\ IsSpace(c[Len(c)]) THEN TrimEnd(SubSeq(c, 1, Len(c) - 1)) ELSE c

\* String.prototype.trim()
\* A trim that forgets the trailing spaces.
TrimLeadingOnly(c) == TrimStart(c)

Trim(c) == TrimEnd(TrimStart(c))

\* !x for a string payload field
\* A check that lets every value through.
NeverFalsy(x) == FALSE

Falsy(x) == x = <<>>

-----------------------------------------------------------------------------
\* Stores.

\* The ObjectId a string is cast to where it meets the store (query filters,
\* new documents): hex digits of either case name the same id.
CastId(id) == [i \in 1..Len(id) |-> IF id[i] \in 65..70 THEN id[i] + 32 ELSE id[i]]

\* A well-formed ObjectId; anything else makes a query reject with a CastError.
ValidId(id) == CastId(id) \in UserIds

\* Friendship.areFriends
\* A lookup that takes any edge, accepted or not, for a friendship.
AreFriendsAnyStatus(F, userId1, userId2) ==
  \E f \in F :
    \/ f.requester = CastId(userId1) /\ f.recipient = CastId(userId2)
    \/ f.requester = CastId(userId2) /\ f.recipient = CastId(userId1)

AreFriends(F, userId1, userId2) ==
  \E f \in F :
    \/ f.requester = CastId(userId1) /\ f.recipient = CastId(userId2) /\ f.status = "accepted"
    \/ f.requester = CastId(userId2) /\ f.recipient = CastId(userId1) /\ f.status = "accepted"

\* new Message({...}) followed by save(): the document as inserted.
\* by is the handler that created it (bookkeeping, not a field of the schema).
NewMessage(sender, recipient, content, messageType, createdAt, by) ==
  [sender |-> CastId(sender), recipient |-> CastId(recipient), content |-> content,
   messageType |-> messageType, isRead |-> FALSE, readAt |-> Null,
   createdAt |-> createdAt, by |-> by]

\* The schema's validation at save(): content is required after trimming.
ValidMessage(doc) ==
  /\ ValidId(doc.sender)
  /\ ValidId(doc.recipient)
  /\ Trim(doc.content) # <<>>
  /\ doc.messageType \in {"text", "image", "video", "audio", "file"}

\* The filter of Message.updateMany in the read paths.
\* A filter with the two ends of the conversation exchanged.
UnreadFromSwapped(doc, senderId, recipientId) ==
  doc.sender = CastId(recipientId) /\ doc.recipient = CastId(senderId) /\ doc.isRead = FALSE

\* A filter that forgets the isRead condition.
SentFrom(doc, senderId, recipientId) ==
  doc.sender = CastId(senderId) /\ doc.recipient = CastId(recipientId)

UnreadFrom(doc, senderId, recipientId) ==
  doc.sender = CastId(senderId) /\ doc.recipient = CastId(recipientId) /\ doc.isRead = FALSE

\* Message.updateMany({sender, recipient, isRead: false}, {isRead: true, readAt})
\* An update that stops after the first matching document.
MarkReadOne(M, senderId, recipientId, readAt) ==
  [i \in 1..Len(M) |->
     IF /\ UnreadFrom(M[i], senderId, recipientId)
        /\ \A j \in 1..(i - 1) : ~UnreadFrom(M[j], senderId, recipientId)
     THEN [M[i] EXCEPT !.isRead = TRUE, !.readAt = <<readAt>>]
     ELSE M[i]]

\* .limit(50) of the history query.
HistoryLimit == 50

\* The documents matched by {$or: [{sender: x, recipient: y}, {sender: y,
\* recipient: x}]}.
Between(M, x, y) ==
  {i \in 1..Len(M) : SentFrom(M[i], x, y) \/ SentFrom(M[i], y, x)}

\* .sort({createdAt: 1}): the number of matched documents that come before i,
\* documents of one createdAt in insertion order.
Rank(M, I, i) ==
  Cardinality({j \in I : \/ M[j].createdAt < M[i].createdAt
                         \/ M[j].createdAt = M[i].createdAt /\ j < i})

\* Message.find({$or: ...}).sort({createdAt: 1}).limit(limit): the _ids of the
\* first limit documents in ascending createdAt.
FindBetween(M, x, y, limit) ==
  LET I == Between(M, x, y)
      n == Cardinality(I) IN
  [k \in 1..(IF n > limit THEN limit ELSE n) |-> CHOOSE i \in I : Rank(M, I, i) = k - 1]

MarkReadBulk(M, senderId, recipientId, readAt) ==
  [i \in 1..Len(M) |->
     IF UnreadFrom(M[i], senderId, recipientId)
     THEN [M[i] EXCEPT !.isRead = TRUE, !.readAt = <<readAt>>]
     ELSE M[i]]

-----------------------------------------------------------------------------
\* Socket.IO delivery: the connections an emit reaches.

Connected(s) == conn[s].st = "open"

\* socket.emit
ToSelf(s) == IF Connected(s) THEN {s} ELSE {}

\* io.to(room).emit
ToRoom(room) == {x \in DOMAIN conn : Connected(x) /\ room \in conn[x].rooms}

\* socket.to(room).emit
\* A personal room that holds only the socket whose id the user record stores.
ToLatestExcept(s, room) ==
  IF room \in DOMAIN users
  THEN {x \in ToRoom(room) : users[room].socketId = x} \ {s}
  ELSE ToRoom(room) \ {s}

ToRoomExcept(s, room) == ToRoom(room) \ {s}

\* socket.broadcast.emit
\* A broadcast that also reaches the socket it is made from.
ToEveryone(s) == {x \in DOMAIN conn : Connected(x)}

ToOthers(s) == {x \in DOMAIN conn : Connected(x)} \ {s}

\* One emit: by handler h, of event ev, made through via ("socket.emit",
\* "io.to", "socket.to" or "socket.broadcast"), addressed to room (Null when
\* the call names no room), reaching the connections in to, with payload p.
Emit(h, ev, via, room, to, p) ==
  [h |-> h, ev |-> ev, via |-> via, room |-> room, to |-> to, p |-> p]

\* socket.emit('message-error', {error})
MessageError(h, s, error) ==
  Emit(h, "message-error", "socket.emit", Null, ToSelf(s), [error |-> error])

-----------------------------------------------------------------------------
\* Handlers.

\* A handler just started by event ev on socket sock (Null for an HTTP
\* request, whose a is then req.session.userId).
\*   t      the Date the handler captured last (new Date(), Date.now)
\*   r      what Friendship.areFriends answered: "none" before the lookup
\*   m      _id of the message the handler saved, 0 if none
\*   mt     the messageType of the document the handler builds
\*   fid    _id of the Friendship document a findOne returned, 0 if none
\*   sid    the socketId read by User.findById(...).select('socketId')
\*   wrote  the users whose document the handler's update modified
\*   err    the handler ran its catch block
\*   res    the HTTP status sent, 0 if none
\*   list   the _ids of the documents a Message.find returned, in its order
\*   post   the Post document a findById returned, Null if none
Handler(ev, sock, pc, a, b, c) ==
  [ev |-> ev, sock |-> sock, pc |-> pc, a |-> a, b |-> b, c |-> c, t |-> now,
   r |-> "none", m |-> 0, mt |-> "text", fid |-> 0, sid |-> Null, wrote |-> {},
   err |-> FALSE, res |-> 0, cut |-> 0, list |-> <<>>,
   post |-> Null]

CanStart == Len(hs) < MaxEvents

NextId == Len(hs) + 1

At(h, pc) == h \in 1..Len(hs) /\ hs[h].pc = pc

Done(h) == h \in 1..Len(hs) /\ hs[h].pc = "done"

-----------------------------------------------------------------------------
\* The clock.

Tick ==
  /\ now < MaxClock
  /\ now' = now + 1
  /\ UNCHANGED <<posts, users, messages, friendships, conn, hs, log>>

-----------------------------------------------------------------------------
\* io.on('connection'): a transport connects; the socket is in the room named
\* by its own id and currentUser is null.
Connect(s) ==
  /\ conn[s].st = "idle"
  /\ conn' = [conn EXCEPT ![s] = [st |-> "open", currentUser |-> Null, rooms |-> {s}]]
  /\ UNCHANGED <<posts, now, users, messages, friendships, hs, log>>

-----------------------------------------------------------------------------
\* socket.on('send-message')

\* The catch block: log, then socket.emit('message-error').
\* A catch block that ends the handler without telling the sender.
SmCatchSilent(h) ==
  /\ hs' = [hs EXCEPT ![h].pc = "done", ![h].err = TRUE]
  /\ log' = log

SmCatch(h) ==
  /\ hs' = [hs EXCEPT ![h].pc = "done", ![h].err = TRUE]
  /\ log' = Append(log, MessageError(h, hs[h].sock, "Failed to send message"))

\* The event arrives: destructure and validate, then call areFriends.
RecvSendMessage(s, senderId, recipientId, content) ==
  /\ Connected(s)
  /\ CanStart
  /\ IF Falsy(senderId) \/ Falsy(recipientId) \/ Falsy(content)
     THEN /\ hs' = Append(hs, Handler("send-message", s, "done", senderId, recipientId, content))
          /\ log' = Append(log, MessageError(NextId, s, "Missing required fields"))
     ELSE /\ hs' = Append(hs, Handler("send-message", s, "sm_friends", senderId, recipientId, content))
          /\ log' = log
  /\ UNCHANGED <<posts, now, users, messages, friendships, conn>>

\* await Friendship.areFriends(senderId, recipientId)
SmFriends(h) ==
  /\ At(h, "sm_friends")
  /\ \/ /\ ValidId(hs[h].a) /\ ValidId(hs[h].b)
        /\ hs' = [hs EXCEPT ![h].pc = "sm_checked",
                            ![h].r = IF AreFriends(friendships, hs[h].a, hs[h].b)
                                     THEN "yes" ELSE "no"]
        /\ log' = log
     \/ SmCatch(h)
  /\ UNCHANGED <<posts, now, users, messages, friendships, conn>>

\* if (!areFriends) reject; else new Message({..., content: content.trim()})
\* with createdAt: Date.now, and call save().
SmChecked(h) ==
  /\ At(h, "sm_checked")
  /\ IF hs[h].r = "no"
     THEN /\ hs' = [hs EXCEPT ![h].pc = "done"]
          /\ log' = Append(log, MessageError(h, hs[h].sock, "You can only message friends"))
     ELSE /\ hs' = [hs EXCEPT ![h].pc = "sm_save", ![h].t = now]
          /\ log' = log
  /\ UNCHANGED <<posts, now, users, messages, friendships, conn>>

\* await message.save()
SmSave(h) ==
  /\ At(h, "sm_save")
  /\ LET doc == NewMessage(hs[h].a, hs[h].b, Trim(hs[h].c), "text", hs[h].t, h) IN
     \/ /\ ValidMessage(doc)
        /\ messages' = Append(messages, doc)
        /\ hs' = [hs EXCEPT ![h].pc = "sm_populate", ![h].m = Len(messages) + 1]
        /\ log' = log
     \/ /\ SmCatch(h)
        /\ messages' = messages
  /\ UNCHANGED <<posts, now, users, friendships, conn>>

\* await message.populate('sender', 'username'), await
\* message.populate('recipient', 'username'), then the fan-out:
\* io.to(chatRoom), socket.to(recipientId), socket.emit('message-delivered').
\* The two populates read display names only; either may reject.
SmPopulate(h) ==
  /\ At(h, "sm_populate")
  /\ \/ /\ hs' = [hs EXCEPT ![h].pc = "done"]
        /\ LET s == hs[h].sock
               chatRoom == ChatRoom(hs[h].a, hs[h].b)
           IN log' = log \o
                <<Emit(h, "new-message", "io.to", chatRoom, ToRoom(chatRoom), [m |-> hs[h].m]),
                  Emit(h, "new-message", "socket.to", hs[h].b, ToRoomExcept(s, hs[h].b),
                       [m |-> hs[h].m]),
                  Emit(h, "message-delivered", "socket.emit", Null, ToSelf(s),
                       [messageId |-> hs[h].m, timestamp |-> hs[h].t])>>
     \/ SmCatch(h)
  /\ UNCHANGED <<posts, now, users, messages, friendships, conn>>

-----------------------------------------------------------------------------
\* socket.on('join-chat'): no await; the socket joins the pair's room.
JoinChat(s, senderId, recipientId) ==
  /\ Connected(s)
  /\ conn' = [conn EXCEPT ![s].rooms = @ \cup {ChatRoom(senderId, recipientId)}]
  /\ UNCHANGED <<posts, now, users, messages, friendships, hs, log>>

-----------------------------------------------------------------------------
\* Presence: user-connected, user-active, user-inactive, user-disconnected
\* and the transport's disconnect.

\* The catch block of a handler that only logs.
LogCatch(h) == hs' = [hs EXCEPT ![h].pc = "done", ![h].err = TRUE]

\* await User.findByIdAndUpdate(id, doc): the fields of doc overwrite the
\* user's; the call rejects on an id that is no ObjectId.
UserUpdate(h, pc, doc) ==
  \/ /\ ValidId(hs[h].a)
     /\ users' = [users EXCEPT ![CastId(hs[h].a)] = [k \in DOMAIN @ |->
                    IF k \in DOMAIN doc THEN doc[k] ELSE @[k]]]
     /\ hs' = [hs EXCEPT ![h].pc = pc, ![h].wrote = @ \cup {CastId(hs[h].a)}]
  \/ /\ LogCatch(h)
     /\ users' = users

\* socket.broadcast.emit('user-status-update', {userId, isOnline, lastSeen})
StatusUpdate(h, isOnline) ==
  Emit(h, "user-status-update", "socket.broadcast", Null, ToOthers(hs[h].sock),
       [userId |-> hs[h].a, isOnline |-> isOnline, lastSeen |-> now])

\* socket.on('user-connected'): currentUser is bound before the first await.
RecvUserConnected(s, userId) ==
  /\ Connected(s)
  /\ CanStart
  /\ conn' = [conn EXCEPT ![s].currentUser = <<userId>>]
  /\ hs' = Append(hs, Handler("user-connected", s, "uc_update", userId, Null, Null))
  /\ UNCHANGED <<posts, now, users, messages, friendships, log>>

UcUpdate(h) ==
  /\ At(h, "uc_update")
  /\ UserUpdate(h, "uc_join",
       [isOnline |-> TRUE, lastSeen |-> hs[h].t, socketId |-> hs[h].sock])
  /\ UNCHANGED <<posts, now, messages, friendships, conn, log>>

\* A user-connected that broadcasts but never joins the personal room.
UcJoinNoRoom(h) ==
  /\ At(h, "uc_join")
  /\ log' = Append(log, StatusUpdate(h, TRUE))
  /\ hs' = [hs EXCEPT ![h].pc = "done"]
  /\ UNCHANGED <<posts, now, users, messages, friendships, conn>>

\* A user-connected that replays the stored messages to the socket it binds.
UcJoinReplay(h) ==
  /\ At(h, "uc_join")
  /\ conn' = IF Connected(hs[h].sock)
             THEN [conn EXCEPT ![hs[h].sock].rooms = @ \cup {hs[h].a}]
             ELSE conn
  /\ log' = Append(log, StatusUpdate(h, TRUE)) \o
            [i \in 1..Len(messages) |->
               Emit(h, "new-message", "socket.emit", Null, ToSelf(hs[h].sock), [m |-> i])]
  /\ hs' = [hs EXCEPT ![h].pc = "done"]
  /\ UNCHANGED <<posts, now, users, messages, friendships>>

\* socket.join(userId), a no-op once the socket has closed; then the broadcast.
UcJoin(h) ==
  /\ At(h, "uc_join")
  /\ conn' = IF Connected(hs[h].sock)
             THEN [conn EXCEPT ![hs[h].sock].rooms = @ \cup {hs[h].a}]
             ELSE conn
  /\ log' = Append(log, StatusUpdate(h, TRUE))
  /\ hs' = [hs EXCEPT ![h].pc = "done"]
  /\ UNCHANGED <<posts, now, users, messages, friendships>>

\* A user-active that also binds the identity of the connection.
RecvUserActiveBinds(s, userId) ==
  /\ Connected(s)
  /\ CanStart
  /\ conn' = [conn EXCEPT ![s].currentUser = <<userId>>]
  /\ hs' = Append(hs, Handler("user-active", s, "ua_update", userId, Null, Null))
  /\ UNCHANGED <<posts, now, users, messages, friendships, log>>

\* socket.on('user-active')
RecvUserActive(s, userId) ==
  /\ Connected(s)
  /\ CanStart
  /\ hs' = Append(hs, Handler("user-active", s, "ua_update", userId, Null, Null))
  /\ UNCHANGED <<posts, now, users, messages, friendships, conn, log>>

UaUpdate(h) ==
  /\ At(h, "ua_update")
  /\ UserUpdate(h, "ua_emit", [isOnline |-> TRUE, lastSeen |-> hs[h].t])
  /\ UNCHANGED <<posts, now, messages, friendships, conn, log>>

UaEmit(h) ==
  /\ At(h, "ua_emit")
  /\ log' = Append(log, StatusUpdate(h, TRUE))
  /\ hs' = [hs EXCEPT ![h].pc = "done"]
  /\ UNCHANGED <<posts, now, users, messages, friendships, conn>>

\* socket.on('user-inactive'): only lastSeen is stored; the broadcast says
\* isOnline false.
RecvUserInactive(s, userId) ==
  /\ Connected(s)
  /\ CanStart
  /\ hs' = Append(hs, Handler("user-inactive", s, "ui_update", userId, Null, Null))
  /\ UNCHANGED <<posts, now, users, messages, friendships, conn, log>>

UiUpdate(h) ==
  /\ At(h, "ui_update")
  /\ UserUpdate(h, "ui_emit", [lastSeen |-> hs[h].t])
  /\ UNCHANGED <<posts, now, messages, friendships, conn, log>>

UiEmit(h) ==
  /\ At(h, "ui_emit")
  /\ log' = Append(log, StatusUpdate(h, FALSE))
  /\ hs' = [hs EXCEPT ![h].pc = "done"]
  /\ UNCHANGED <<posts, now, users, messages, friendships, conn>>

\* socket.on('user-disconnected'): the user named by the payload.
RecvUserDisconnected(s, userId) ==
  /\ Connected(s)
  /\ CanStart
  /\ hs' = Append(hs, Handler("user-disconnected", s,
                              IF Falsy(userId) THEN "done" ELSE "ud_update",
                              userId, Null, Null))
  /\ UNCHANGED <<posts, now, users, messages, friendships, conn, log>>

UdUpdate(h) ==
  /\ At(h, "ud_update")
  /\ UserUpdate(h, "ud_emit",
       [isOnline |-> FALSE, lastSeen |-> hs[h].t, socketId |-> Null])
  /\ UNCHANGED <<posts, now, messages, friendships, conn, log>>

UdEmit(h) ==
  /\ At(h, "ud_emit")
  /\ log' = Append(log, StatusUpdate(h, FALSE))
  /\ hs' = [hs EXCEPT ![h].pc = "done"]
  /\ UNCHANGED <<posts, now, users, messages, friendships, conn>>

\* The transport closes: the socket leaves its rooms, then socket.on('disconnect')
\* runs with the currentUser of the connection.
Disconnect(s) ==
  /\ Connected(s)
  /\ CanStart
  /\ conn' = [conn EXCEPT ![s].st = "closed", ![s].rooms = {}]
  /\ LET currentUser == conn[s].currentUser IN
     hs' = Append(hs,
       IF currentUser # Null /\ ~Falsy(currentUser[1])
       THEN Handler("disconnect", s, "dc_update", currentUser[1], Null, Null)
       ELSE Handler("disconnect", s, "done", Null, Null, Null))
  /\ UNCHANGED <<posts, now, users, messages, friendships, log>>

DcUpdate(h) ==
  /\ At(h, "dc_update")
  /\ UserUpdate(h, "dc_emit",
       [isOnline |-> FALSE, lastSeen |-> hs[h].t, socketId |-> Null])
  /\ UNCHANGED <<posts, now, messages, friendships, conn, log>>

DcEmit(h) ==
  /\ At(h, "dc_emit")
  /\ log' = Append(log, StatusUpdate(h, FALSE))
  /\ hs' = [hs EXCEPT ![h].pc = "done"]
  /\ UNCHANGED <<posts, now, users, messages, friendships, conn>>

-----------------------------------------------------------------------------
\* socket.on('friend-request-sent') and socket.on('friend-request-accepted'):
\* no await; socket.to(recipientId) / socket.to(requesterId) gets one event.
FriendNotice(s, sent, targetId) ==
  /\ Connected(s)
  /\ CanStart
  /\ hs' = Append(hs, Handler(IF sent THEN "friend-request-sent" ELSE "friend-request-accepted",
                              s, "done", targetId, Null, Null))
  /\ log' = Append(log, Emit(NextId,
                             IF sent THEN "friend-request-received"
                                     ELSE "friend-request-response",
                             "socket.to", targetId, ToRoomExcept(s, targetId),
                             [accepted |-> ~sent]))
  /\ UNCHANGED <<posts, now, users, messages, friendships, conn>>

-----------------------------------------------------------------------------
\* socket.on('mark-messages-read')

RecvMarkRead(s, senderId, recipientId) ==
  /\ Connected(s)
  /\ CanStart
  /\ hs' = Append(hs, Handler("mark-messages-read", s, "mr_update", senderId, recipientId, Null))
  /\ UNCHANGED <<posts, now, users, messages, friendships, conn, log>>

\* await Message.updateMany(...): one call to the store, applied in one step.
MrUpdate(h) ==
  /\ At(h, "mr_update")
  /\ \/ /\ ValidId(hs[h].a) /\ ValidId(hs[h].b)
        /\ messages' = MarkReadBulk(messages, hs[h].a, hs[h].b, hs[h].t)
        /\ hs' = [hs EXCEPT ![h].pc = "mr_find", ![h].cut = Len(messages)]
     \/ /\ LogCatch(h)
        /\ messages' = messages
  /\ UNCHANGED <<posts, now, users, friendships, conn, log>>

\* await User.findById(senderId).select('socketId')
MrFind(h) ==
  /\ At(h, "mr_find")
  /\ \/ hs' = [hs EXCEPT ![h].pc = "mr_notify", ![h].sid = users[CastId(hs[h].a)].socketId]
     \/ LogCatch(h)
  /\ UNCHANGED <<posts, now, users, messages, friendships, conn, log>>

\* if (senderUser && senderUser.socketId) io.to(socketId).emit('messages-read')
\* A receipt that names the sender where the reader belongs.
MrNotifySwapped(h) ==
  /\ At(h, "mr_notify")
  /\ log' = IF hs[h].sid # Null
            THEN Append(log, Emit(h, "messages-read", "io.to", hs[h].sid, ToRoom(hs[h].sid),
                                  [recipientId |-> hs[h].a, readAt |-> now]))
            ELSE log
  /\ hs' = [hs EXCEPT ![h].pc = "done"]
  /\ UNCHANGED <<posts, now, users, messages, friendships, conn>>

MrNotify(h) ==
  /\ At(h, "mr_notify")
  /\ log' = IF hs[h].sid # Null
            THEN Append(log, Emit(h, "messages-read", "io.to", hs[h].sid, ToRoom(hs[h].sid),
                                  [recipientId |-> hs[h].b, readAt |-> now]))
            ELSE log
  /\ hs' = [hs EXCEPT ![h].pc = "done"]
  /\ UNCHANGED <<posts, now, users, messages, friendships, conn>>

-----------------------------------------------------------------------------
\* socket.on('typing-start') / socket.on('typing-stop'): no await.
\* A typing indicator sent to the recipient's personal room instead.
TypingToMailbox(s, senderId, recipientId, isTyping) ==
  /\ Connected(s)
  /\ CanStart
  /\ hs' = Append(hs, Handler(IF isTyping THEN "typing-start" ELSE "typing-stop",
                              s, "done", senderId, recipientId, Null))
  /\ log' = Append(log, Emit(NextId, "user-typing", "socket.to", recipientId,
                             ToRoomExcept(s, recipientId),
                             [userId |-> senderId, isTyping |-> isTyping]))
  /\ UNCHANGED <<posts, now, users, messages, friendships, conn>>

Typing(s, senderId, recipientId, isTyping) ==
  /\ Connected(s)
  /\ CanStart
  /\ hs' = Append(hs, Handler(IF isTyping THEN "typing-start" ELSE "typing-stop",
                              s, "done", senderId, recipientId, Null))
  /\ LET chatRoom == ChatRoom(senderId, recipientId) IN
     log' = Append(log, Emit(NextId, "user-typing", "socket.to", chatRoom,
                             ToRoomExcept(s, chatRoom),
                             [userId |-> senderId, isTyping |-> isTyping]))
  /\ UNCHANGED <<posts, now, users, messages, friendships, conn>>

-----------------------------------------------------------------------------
\* routes/messages.js: POST /api/messages, /api/messages/upload and
\* /api/messages/upload-audio.  The three routes share their shape: validate,
\* areFriends, new Message, save, populate twice, respond.

\* The catch block of a route: res.status(500).
HttpCatch(h) == hs' = [hs EXCEPT ![h].pc = "done", ![h].err = TRUE, ![h].res = 500]

\* The messageType the upload route derives from req.file.mimetype.
UploadType(mimetype) ==
  IF mimetype = "image/" THEN "image"
  ELSE IF mimetype = "video/" THEN "video"
  ELSE IF mimetype = "audio/" THEN "audio"
  ELSE "file"

\* POST /api/messages: senderId is the session's user.
RecvPostMessage(senderId, recipientId, content) ==
  /\ CanStart
  /\ senderId \in UserIds
  /\ hs' = Append(hs,
       IF Falsy(recipientId) \/ Falsy(content)
       THEN [Handler("post-message", Null, "done", senderId, recipientId, content)
               EXCEPT !.res = 400]
       ELSE Handler("post-message", Null, "hc_friends", senderId, recipientId, content))
  /\ UNCHANGED <<posts, now, users, messages, friendships, conn, log>>

\* POST /api/messages/upload: originalname is Null when no file came.
RecvUpload(senderId, recipientId, originalname, mimetype) ==
  /\ CanStart
  /\ senderId \in UserIds
  /\ hs' = Append(hs,
       IF Falsy(originalname) \/ Falsy(recipientId)
       THEN [Handler("upload", Null, "done", senderId, recipientId, originalname)
               EXCEPT !.res = 400]
       ELSE [Handler("upload", Null, "hc_friends", senderId, recipientId, originalname)
               EXCEPT !.mt = UploadType(mimetype)])
  /\ UNCHANGED <<posts, now, users, messages, friendships, conn, log>>

\* POST /api/messages/upload-audio: the content is "Audio message (<n>s)".
RecvUploadAudio(senderId, recipientId, hasFile) ==
  /\ CanStart
  /\ senderId \in UserIds
  /\ hs' = Append(hs,
       IF ~hasFile \/ Falsy(recipientId)
       THEN [Handler("upload-audio", Null, "done", senderId, recipientId, Null)
               EXCEPT !.res = 400]
       ELSE [Handler("upload-audio", Null, "hc_friends", senderId, recipientId, <<65>>)
               EXCEPT !.mt = "audio"])
  /\ UNCHANGED <<posts, now, users, messages, friendships, conn, log>>

\* await Friendship.areFriends(senderId, recipientId)
HcFriends(h) ==
  /\ At(h, "hc_friends")
  /\ \/ /\ ValidId(hs[h].b)
        /\ hs' = [hs EXCEPT ![h].pc = "hc_checked",
                            ![h].r = IF AreFriends(friendships, hs[h].a, hs[h].b)
                                     THEN "yes" ELSE "no"]
     \/ HttpCatch(h)
  /\ UNCHANGED <<posts, now, users, messages, friendships, conn, log>>

\* A route that goes on to save whatever the lookup answered.
HcCheckedUngated(h) ==
  /\ At(h, "hc_checked")
  /\ hs' = [hs EXCEPT ![h].pc = "hc_save", ![h].t = now]
  /\ UNCHANGED <<posts, now, users, messages, friendships, conn, log>>

\* if (!areFriends) 403; else new Message({...}) and call save().
HcChecked(h) ==
  /\ At(h, "hc_checked")
  /\ hs' = IF hs[h].r = "no"
           THEN [hs EXCEPT ![h].pc = "done", ![h].res = 403]
           ELSE [hs EXCEPT ![h].pc = "hc_save", ![h].t = now]
  /\ UNCHANGED <<posts, now, users, messages, friendships, conn, log>>

\* await message.save(); the schema trims content (trim: true) on every path.
\* A save that stores the content as the client sent it.
HcSaveUntrimmed(h) ==
  /\ At(h, "hc_save")
  /\ LET doc == NewMessage(hs[h].a, hs[h].b, hs[h].c, hs[h].mt, hs[h].t, h) IN
     \/ /\ ValidMessage(doc)
        /\ messages' = Append(messages, doc)
        /\ hs' = [hs EXCEPT ![h].pc = "hc_populate", ![h].m = Len(messages) + 1]
     \/ /\ HttpCatch(h)
        /\ messages' = messages
  /\ UNCHANGED <<posts, now, users, friendships, conn, log>>

HcSave(h) ==
  /\ At(h, "hc_save")
  /\ LET doc == NewMessage(hs[h].a, hs[h].b, Trim(hs[h].c), hs[h].mt, hs[h].t, h) IN
     \/ /\ ValidMessage(doc)
        /\ messages' = Append(messages, doc)
        /\ hs' = [hs EXCEPT ![h].pc = "hc_populate", ![h].m = Len(messages) + 1]
     \/ /\ HttpCatch(h)
        /\ messages' = messages
  /\ UNCHANGED <<posts, now, users, friendships, conn, log>>

\* await message.populate('sender'), await message.populate('recipient'),
\* res.json(message).  The route emits nothing.
HcPopulate(h) ==
  /\ At(h, "hc_populate")
  /\ \/ hs' = [hs EXCEPT ![h].pc = "done", ![h].res = 200]
     \/ HttpCatch(h)
  /\ UNCHANGED <<posts, now, users, messages, friendships, conn, log>>

-----------------------------------------------------------------------------
\* routes/friends.js: POST /api/friends/remove

RecvRemoveFriend(currentUserId, friendId) ==
  /\ CanStart
  /\ currentUserId \in UserIds
  /\ hs' = Append(hs,
       IF Falsy(friendId)
       THEN [Handler("remove-friend", Null, "done", currentUserId, friendId, Null)
               EXCEPT !.res = 400]
       ELSE Handler("remove-friend", Null, "rf_find", currentUserId, friendId, Null))
  /\ UNCHANGED <<posts, now, users, messages, friendships, conn, log>>

\* The accepted edges between two users, in either direction.
AcceptedBetween(F, x, y) ==
  {f \in F : /\ f.status = "accepted"
             /\ \/ f.requester = CastId(x) /\ f.recipient = CastId(y)
                \/ f.requester = CastId(y) /\ f.recipient = CastId(x)}

\* await Friendship.findOne({$or: [...accepted...]}); 404 when there is none,
\* else call findByIdAndDelete(friendship._id).
RfFind(h) ==
  /\ At(h, "rf_find")
  /\ LET found == AcceptedBetween(friendships, hs[h].a, hs[h].b) IN
     \/ /\ ValidId(hs[h].b)
        /\ found = {}
        /\ hs' = [hs EXCEPT ![h].pc = "done", ![h].res = 404]
     \/ /\ ValidId(hs[h].b)
        /\ \E f \in found : hs' = [hs EXCEPT ![h].pc = "rf_delete", ![h].fid = f.id]
     \/ HttpCatch(h)
  /\ UNCHANGED <<posts, now, users, messages, friendships, conn, log>>

\* await Friendship.findByIdAndDelete(friendship._id), then res.json.
RfDelete(h) ==
  /\ At(h, "rf_delete")
  /\ \/ /\ friendships' = {f \in friendships : f.id # hs[h].fid}
        /\ hs' = [hs EXCEPT ![h].pc = "done", ![h].res = 200]
     \/ /\ HttpCatch(h)
        /\ friendships' = friendships
  /\ UNCHANGED <<posts, now, users, messages, conn, log>>

-----------------------------------------------------------------------------
\* routes/friends.js: POST /api/friends/request, /accept and /decline.

\* The edges between two users, in either direction and of any status.
EdgesBetween(F, x, y) ==
  {f \in F : \/ f.requester = CastId(x) /\ f.recipient = CastId(y)
             \/ f.requester = CastId(y) /\ f.recipient = CastId(x)}

\* The unique index {requester: 1, recipient: 1} of the Friendship collection:
\* an insert is refused when a document has the same ordered pair.
DuplicateKey(F, requester, recipient) ==
  \E f \in F : f.requester = CastId(requester) /\ f.recipient = CastId(recipient)

\* _id of the Friendship document handler h inserts: fresh, never reused.
NewEdgeId(h) == 2 + h

\* The request arrives: 400 without a recipient or to oneself, else call
\* User.findById(recipientId).
RecvFriendRequest(requesterId, recipientId) ==
  /\ CanStart
  /\ requesterId \in UserIds
  /\ hs' = Append(hs,
       IF Falsy(recipientId) \/ requesterId = recipientId
       THEN [Handler("friend-request", Null, "done", requesterId, recipientId, Null)
               EXCEPT !.res = 400]
       ELSE Handler("friend-request", Null, "fr_user", requesterId, recipientId, Null))
  /\ UNCHANGED <<posts, now, users, messages, friendships, conn, log>>

\* await User.findById(recipientId), then call Friendship.findOne.
FrUser(h) ==
  /\ At(h, "fr_user")
  /\ \/ /\ ValidId(hs[h].b)
        /\ hs' = [hs EXCEPT ![h].pc = "fr_find"]
     \/ HttpCatch(h)
  /\ UNCHANGED <<posts, now, users, messages, friendships, conn, log>>

\* await Friendship.findOne({$or: [either direction]}): 400 when the edge
\* found is accepted or pending, else new Friendship({...}) and call save().
FrFind(h) ==
  /\ At(h, "fr_find")
  /\ LET found == EdgesBetween(friendships, hs[h].a, hs[h].b) IN
     \/ /\ found = {}
        /\ hs' = [hs EXCEPT ![h].pc = "fr_save"]
     \/ \E f \in found :
          hs' = IF f.status \in {"accepted", "pending"}
                THEN [hs EXCEPT ![h].pc = "done", ![h].res = 400]
                ELSE [hs EXCEPT ![h].pc = "fr_save"]
     \/ HttpCatch(h)
  /\ UNCHANGED <<posts, now, users, messages, friendships, conn, log>>

\* await friendship.save(): the insert, refused by the unique index.
FrSave(h) ==
  /\ At(h, "fr_save")
  /\ \/ /\ ~DuplicateKey(friendships, hs[h].a, hs[h].b)
        /\ friendships' = friendships \cup
             {[id |-> NewEdgeId(h), requester |-> CastId(hs[h].a), recipient |-> CastId(hs[h].b),
               status |-> "pending"]}
        /\ hs' = [hs EXCEPT ![h].pc = "fr_populate", ![h].fid = NewEdgeId(h)]
     \/ /\ HttpCatch(h)
        /\ friendships' = friendships
  /\ UNCHANGED <<posts, now, users, messages, conn, log>>

\* The two populates, then res.json.
FrPopulate(h) ==
  /\ At(h, "fr_populate")
  /\ \/ hs' = [hs EXCEPT ![h].pc = "done", ![h].res = 200]
     \/ HttpCatch(h)
  /\ UNCHANGED <<posts, now, users, messages, friendships, conn, log>>

\* POST /api/friends/accept and /decline: 400 without a friendshipId, else
\* call Friendship.findOne({_id, recipient: currentUserId, status: 'pending'}).
RecvFriendAnswer(accept, currentUserId, friendshipId) ==
  /\ CanStart
  /\ currentUserId \in UserIds
  /\ hs' = Append(hs,
       LET ev == IF accept THEN "friend-accept" ELSE "friend-decline" IN
       IF friendshipId = 0
       THEN [Handler(ev, Null, "done", currentUserId, Null, Null) EXCEPT !.res = 400]
       ELSE [Handler(ev, Null, "fa_find", currentUserId, Null, Null)
               EXCEPT !.fid = friendshipId])
  /\ UNCHANGED <<posts, now, users, messages, friendships, conn, log>>

\* await Friendship.findOne(...): 404 when there is no such pending request
\* to the session's user; else accept calls save(), decline findByIdAndDelete.
FaFind(h) ==
  /\ At(h, "fa_find")
  /\ LET found == {f \in friendships : /\ f.id = hs[h].fid
                                       /\ f.recipient = hs[h].a
                                       /\ f.status = "pending"} IN
     \/ /\ found = {}
        /\ hs' = [hs EXCEPT ![h].pc = "done", ![h].res = 404]
     \/ /\ found # {}
        /\ hs' = [hs EXCEPT ![h].pc = IF hs[h].ev = "friend-accept"
                                      THEN "fa_save" ELSE "fd_delete"]
     \/ HttpCatch(h)
  /\ UNCHANGED <<posts, now, users, messages, friendships, conn, log>>

\* friendship.status = 'accepted'; await friendship.save(): an update of the
\* document by _id, which rejects when the document is gone.
FaSave(h) ==
  /\ At(h, "fa_save")
  /\ \/ /\ \E f \in friendships : f.id = hs[h].fid
        /\ friendships' = {IF f.id = hs[h].fid THEN [f EXCEPT !.status = "accepted"] ELSE f :
                             f \in friendships}
        /\ hs' = [hs EXCEPT ![h].pc = "fa_populate"]
     \/ /\ HttpCatch(h)
        /\ friendships' = friendships
  /\ UNCHANGED <<posts, now, users, messages, conn, log>>

FaPopulate(h) ==
  /\ At(h, "fa_populate")
  /\ \/ hs' = [hs EXCEPT ![h].pc = "done", ![h].res = 200]
     \/ HttpCatch(h)
  /\ UNCHANGED <<posts, now, users, messages, friendships, conn, log>>

\* await Friendship.findByIdAndDelete(friendshipId), then res.json.
FdDelete(h) ==
  /\ At(h, "fd_delete")
  /\ \/ /\ friendships' = {f \in friendships : f.id # hs[h].fid}
        /\ hs' = [hs EXCEPT ![h].pc = "done", ![h].res = 200]
     \/ /\ HttpCatch(h)
        /\ friendships' = friendships
  /\ UNCHANGED <<posts, now, users, messages, conn, log>>

-----------------------------------------------------------------------------
\* routes/messages.js: GET /api/messages/:userId, the chat history between
\* the session's user and userId, which marks userId's messages as read.

RecvGetHistory(currentUserId, userId) ==
  /\ CanStart
  /\ currentUserId \in UserIds
  /\ hs' = Append(hs, Handler("get-history", Null, "gh_friends", currentUserId, userId, Null))
  /\ UNCHANGED <<posts, now, users, messages, friendships, conn, log>>

\* await Friendship.areFriends(currentUserId, userId); 403 when not friends,
\* else call Message.find.
GhFriends(h) ==
  /\ At(h, "gh_friends")
  /\ \/ /\ ValidId(hs[h].b)
        /\ hs' = IF AreFriends(friendships, hs[h].a, hs[h].b)
                 THEN [hs EXCEPT ![h].pc = "gh_find", ![h].r = "yes"]
                 ELSE [hs EXCEPT ![h].pc = "done", ![h].r = "no", ![h].res = 403]
     \/ HttpCatch(h)
  /\ UNCHANGED <<posts, now, users, messages, friendships, conn, log>>

\* await Message.find(...).sort({createdAt: 1}).limit(50), then call updateMany
\* with readAt: new Date().
GhFind(h) ==
  /\ At(h, "gh_find")
  /\ \/ hs' = [hs EXCEPT ![h].pc = "gh_update", ![h].t = now,
                         ![h].list = FindBetween(messages, hs[h].a, hs[h].b, HistoryLimit)]
     \/ HttpCatch(h)
  /\ UNCHANGED <<posts, now, users, messages, friendships, conn, log>>

\* await Message.updateMany({sender: userId, recipient: currentUserId,
\* isRead: false}, ...), then res.json(messages).
GhUpdate(h) ==
  /\ At(h, "gh_update")
  /\ \/ /\ messages' = MarkReadBulk(messages, hs[h].b, hs[h].a, hs[h].t)
        /\ hs' = [hs EXCEPT ![h].pc = "done", ![h].res = 200, ![h].cut = Len(messages)]
     \/ /\ HttpCatch(h)
        /\ messages' = messages
  /\ UNCHANGED <<posts, now, users, friendships, conn, log>>

-----------------------------------------------------------------------------
\* models/Post.js and routes/posts.js: POST /api/posts/:postId/like.

\* _id of the stored post, and an _id no post has.
P1 == <<112>>
P2 == <<113>>

\* The likers of a likes array (its entries hold user and createdAt; only
\* user is kept).
Likers(likes) == {likes[k] : k \in 1..Len(likes)}

\* this.likes.filter(like => like.user.toString() !== userId.toString())
WithoutUser(likes, userId) == SelectSeq(likes, LAMBDA x : x # userId)

\* PostSchema.methods.toggleLike on the loaded document: the new likes array
\* and the value returned.
ToggleLike(likes, userId) ==
  IF \E k \in 1..Len(likes) : likes[k] = userId
  THEN [likes |-> WithoutUser(likes, userId), liked |-> FALSE]
  ELSE [likes |-> Append(likes, userId), liked |-> TRUE]

\* The request arrives: call Post.findById(postId).
RecvLike(userId, postId) ==
  /\ CanStart
  /\ userId \in UserIds
  /\ hs' = Append(hs, Handler("like", Null, "pl_find", userId, postId, Null))
  /\ UNCHANGED <<now, users, messages, friendships, conn, log, posts>>

\* await Post.findById(postId): 404 without a post, 403 on a private post of
\* another author; a friends post of another author calls areFriends; else
\* toggleLike and call save().
PlFind(h) ==
  /\ At(h, "pl_find")
  /\ \/ /\ hs[h].b \notin DOMAIN posts
        /\ hs' = [hs EXCEPT ![h].pc = "done", ![h].res = 404]
     \/ /\ hs[h].b \in DOMAIN posts
        /\ LET post == posts[hs[h].b] IN
           hs' = IF post.visibility = "private" /\ post.author # hs[h].a
                 THEN [hs EXCEPT ![h].pc = "done", ![h].res = 403]
                 ELSE IF post.visibility = "friends" /\ post.author # hs[h].a
                 THEN [hs EXCEPT ![h].pc = "pl_friends", ![h].post = post]
                 ELSE [hs EXCEPT ![h].pc = "pl_save", ![h].post = post]
     \/ HttpCatch(h)
  /\ UNCHANGED <<now, users, messages, friendships, conn, log, posts>>

\* await Friendship.areFriends(userId, post.author): 403 when not friends,
\* else toggleLike and call save().
PlFriends(h) ==
  /\ At(h, "pl_friends")
  /\ \/ hs' = IF AreFriends(friendships, hs[h].a, hs[h].post.author)
              THEN [hs EXCEPT ![h].pc = "pl_save", ![h].r = "yes"]
              ELSE [hs EXCEPT ![h].pc = "done", ![h].r = "no", ![h].res = 403]
     \/ HttpCatch(h)
  /\ UNCHANGED <<now, users, messages, friendships, conn, log, posts>>

\* await post.save() after toggleLike(userId). A like was a push onto the
\* loaded array and is saved as $push with $inc of __v, whatever the stored
\* version; an unlike assigned a new array and is saved as $set of the whole
\* array with the loaded __v in the filter, a VersionError when it has moved.
PlSave(h) ==
  /\ At(h, "pl_save")
  /\ LET id == hs[h].b
         toggled == ToggleLike(hs[h].post.likes, hs[h].a) IN
     \/ /\ toggled.liked
        /\ posts' = [posts EXCEPT ![id].likes = Append(@, hs[h].a), ![id].v = @ + 1]
        /\ hs' = [hs EXCEPT ![h].pc = "pl_populate", ![h].r = "liked"]
     \/ /\ ~toggled.liked
        /\ posts[id].v = hs[h].post.v
        /\ posts' = [posts EXCEPT ![id].likes = toggled.likes, ![id].v = @ + 1]
        /\ hs' = [hs EXCEPT ![h].pc = "pl_populate", ![h].r = "unliked"]
     \/ /\ HttpCatch(h)
        /\ posts' = posts
  /\ UNCHANGED <<now, users, messages, friendships, conn, log>>

\* await post.populate('author', 'username'), then res.json.
PlPopulate(h) ==
  /\ At(h, "pl_populate")
  /\ \/ hs' = [hs EXCEPT ![h].pc = "done", ![h].res = 200]
     \/ HttpCatch(h)
  /\ UNCHANGED <<now, users, messages, friendships, conn, log, posts>>

\* The Post collection at start-up: one post of U2 nobody has liked.
PostOf(visibility) ==
  [p \in {P1} |-> [author |-> U2, visibility |-> visibility, likes |-> <<>>, v |-> 0]]

InitPosts == PostOf("friends")

-----------------------------------------------------------------------------
\* The state at start-up: no connection, no handler, nothing emitted; the
\* stores hold three users, an accepted edge between U1 and U2 (requested by
\* U2) and a pending request from U1 to U3.

InitFriendships ==
  {[id |-> 1, requester |-> U2, recipient |-> U1, status |-> "accepted"],
   [id |-> 2, requester |-> U1, recipient |-> U3, status |-> "pending"]}

Init ==
  /\ now = 0
  /\ users = [u \in UserIds |-> [isOnline |-> FALSE, lastSeen |-> 0, socketId |-> Null]]
  /\ messages = <<>>
  /\ friendships = InitFriendships
  /\ conn = [s \in Sockets |-> [st |-> "idle", currentUser |-> Null, rooms |-> {}]]
  /\ hs = <<>>
  /\ log = <<>>
  /\ posts = InitPosts

\* A store that already holds messages, as left by earlier sends and reads:
\* one unread and one read message from U1 to U2, and an unread reply.
InitMessages ==
  <<[NewMessage(U1, U2, <<104>>, "text", 0, 0) EXCEPT !.isRead = TRUE, !.readAt = <<0>>],
    NewMessage(U1, U2, <<104>>, "text", 0, 0),
    NewMessage(U2, U1, <<104>>, "text", 0, 0)>>

\* Both transports have connected and S1 has bound U1 (user-connected ran).
InitRead ==
  /\ now = 0
  /\ users = [u \in UserIds |->
                IF u = U1 THEN [isOnline |-> TRUE, lastSeen |-> 0, socketId |-> S1]
                ELSE [isOnline |-> FALSE, lastSeen |-> 0, socketId |-> Null]]
  /\ messages = InitMessages
  /\ friendships = InitFriendships
  /\ conn = [s \in Sockets |->
               IF s = S1 THEN [st |-> "open", currentUser |-> <<U1>>, rooms |-> {S1, U1}]
               ELSE [st |-> "open", currentUser |-> Null, rooms |-> {s}]]
  /\ hs = <<>>
  /\ log = <<>>
  /\ posts = InitPosts

-----------------------------------------------------------------------------
\* Steps of the handlers in flight.

StepSend(h) == SmFriends(h) \/ SmChecked(h) \/ SmSave(h) \/ SmPopulate(h)

StepCreate(h) == HcFriends(h) \/ HcChecked(h) \/ HcSave(h) \/ HcPopulate(h)

StepRemove(h) == RfFind(h) \/ RfDelete(h)

StepFriends(h) ==
  \/ FrUser(h) \/ FrFind(h) \/ FrSave(h) \/ FrPopulate(h)
  \/ FaFind(h) \/ FaSave(h) \/ FaPopulate(h) \/ FdDelete(h)

StepRead(h) ==
  \/ MrUpdate(h) \/ MrFind(h) \/ MrNotify(h)
  \/ GhFriends(h) \/ GhFind(h) \/ GhUpdate(h)

StepPresence(h) ==
  \/ UcUpdate(h) \/ UcJoin(h) \/ UaUpdate(h) \/ UaEmit(h) \/ UiUpdate(h) \/ UiEmit(h)
  \/ UdUpdate(h) \/ UdEmit(h) \/ DcUpdate(h) \/ DcEmit(h)

-----------------------------------------------------------------------------
\* The send path of the socket, interleaved with friend removal.

Ids == UserIds \cup {Null}

\* Payloads of send-message: friends in either direction, padded and blank
\* content, a pending pair, strangers, and each field missing in turn.
SendPayloads ==
  {<<U1, U2, <<32, 104, 32>>>>, <<U2, U1, <<104>>>>, <<U1, U2, <<32>>>>,
   <<U1, U3, <<104>>>>, <<U2, U3, <<104>>>>,
   <<Null, U2, <<104>>>>, <<U1, Null, <<104>>>>, <<U1, U2, <<>>>>}

RemovePayloads == {<<U1, U2>>, <<U2, U3>>, <<U1, Null>>}

NextSend ==
  \/ \E s \in Sockets : Connect(s) \/ Disconnect(s)
  \/ \E s \in Sockets, p \in SendPayloads : RecvSendMessage(s, p[1], p[2], p[3])
  \/ \E p \in RemovePayloads : RecvRemoveFriend(p[1], p[2])
  \/ \E h \in 1..MaxEvents : StepSend(h) \/ StepRemove(h)

SpecSend == Init /\ [][NextSend]_vars

-----------------------------------------------------------------------------
\* One connection sending messages until it closes, the store answering every
\* call in the end, so that a handler that awaits is resumed.

TerminalPayloads ==
  {<<U1, U2, <<32, 104, 32>>>>, <<U1, U3, <<104>>>>, <<U1, U2, <<32>>>>,
   <<Null, U2, <<104>>>>}

NextTerminal ==
  \/ Connect(S1)
  \/ Disconnect(S1)
  \/ \E p \in TerminalPayloads : RecvSendMessage(S1, p[1], p[2], p[3])
  \/ \E h \in 1..MaxEvents : StepSend(h)

FairSend ==
  /\ Init
  /\ [][NextTerminal]_vars
  /\ \A h \in 1..MaxEvents : WF_vars(StepSend(h))

-----------------------------------------------------------------------------
\* Every path that creates a Message, interleaved with friend removal.

GateSendPayloads == {<<U1, U2, <<104>>>>, <<U1, U3, <<104>>>>}

PostPayloads == {<<U1, U2, <<104, 32>>>>, <<U3, U1, <<104>>>>}

UploadPayloads == {<<U2, U1, <<104>>, "image/">>, <<U1, U3, <<104>>, "text/plain">>}

AudioPayloads == {<<U1, U2, TRUE>>, <<U2, U3, TRUE>>}

GateRemovePayloads == {<<U1, U2>>, <<U2, U1>>}

NextGate ==
  \/ Connect(S1)
  \/ \E p \in GateSendPayloads : RecvSendMessage(S1, p[1], p[2], p[3])
  \/ \E p \in PostPayloads : RecvPostMessage(p[1], p[2], p[3])
  \/ \E p \in UploadPayloads : RecvUpload(p[1], p[2], p[3], p[4])
  \/ \E p \in AudioPayloads : RecvUploadAudio(p[1], p[2], p[3])
  \/ \E p \in GateRemovePayloads : RecvRemoveFriend(p[1], p[2])
  \/ \E h \in 1..MaxEvents : StepSend(h) \/ StepCreate(h) \/ StepRemove(h)

SpecGate == Init /\ [][NextGate]_vars

-----------------------------------------------------------------------------
\* The read paths, interleaved with sends, over a store that holds messages.

ReadPayloads == {<<U1, U2>>, <<U2, U1>>}

NextRead ==
  \/ Tick
  \/ \E p \in ReadPayloads : RecvMarkRead(S2, p[1], p[2])
  \/ RecvGetHistory(U2, U1)
  \/ RecvSendMessage(S1, U1, U2, <<104>>)
  \/ RecvPostMessage(U1, U2, <<104>>)
  \/ \E h \in 1..MaxEvents : StepRead(h) \/ StepSend(h) \/ StepCreate(h)

SpecRead == InitRead /\ [][NextRead]_vars

-----------------------------------------------------------------------------
\* The history route over a conversation longer than the limit of its query.

\* A conversation of HistoryLimit + 1 messages between U1 and U2, one per
\* instant up to the start, U1 and U2 taking turns; the last two messages of U1
\* and the last of U2 are unread.
LongHistory ==
  [i \in 1..(HistoryLimit + 1) |->
     LET createdAt == i - (HistoryLimit + 2)
         doc == IF i % 2 = 1 THEN NewMessage(U1, U2, <<104>>, "text", createdAt, 0)
                ELSE NewMessage(U2, U1, <<104>>, "text", createdAt, 0) IN
     IF i < HistoryLimit - 1
     THEN [doc EXCEPT !.isRead = TRUE, !.readAt = <<createdAt>>]
     ELSE doc]

InitHistory ==
  /\ now = 0
  /\ users = [u \in UserIds |-> [isOnline |-> FALSE, lastSeen |-> 0, socketId |-> Null]]
  /\ messages \in {LongHistory, InitMessages}
  /\ friendships = InitFriendships
  /\ conn = [s \in Sockets |-> [st |-> "open", currentUser |-> Null, rooms |-> {s}]]
  /\ hs = <<>>
  /\ log = <<>>
  /\ posts = InitPosts

NextHistory ==
  \/ Tick
  \/ \E p \in {<<U2, U1>>, <<U1, U2>>, <<U1, U3>>} : RecvGetHistory(p[1], p[2])
  \/ RecvPostMessage(U1, U2, <<104>>)
  \/ \E h \in 1..MaxEvents : GhFriends(h) \/ GhFind(h) \/ GhUpdate(h) \/ StepCreate(h)

SpecHistory == InitHistory /\ [][NextHistory]_vars

-----------------------------------------------------------------------------
\* Likes: requests to like the post of U2, of any visibility, by its author,
\* by a friend and by a user who is no friend, and of a post that is missing.

InitLikes ==
  /\ now = 0
  /\ users = [u \in UserIds |-> [isOnline |-> FALSE, lastSeen |-> 0, socketId |-> Null]]
  /\ messages = <<>>
  /\ friendships = InitFriendships
  /\ conn = [s \in Sockets |-> [st |-> "open", currentUser |-> Null, rooms |-> {s}]]
  /\ hs = <<>>
  /\ log = <<>>
  /\ \E visibility \in {"public", "friends", "private"} : posts = PostOf(visibility)

LikePayloads == {<<U1, P1>>, <<U2, P1>>, <<U3, P1>>, <<U1, P2>>}

NextLikes ==
  \/ \E p \in LikePayloads : RecvLike(p[1], p[2])
  \/ \E h \in 1..MaxEvents : PlFind(h) \/ PlFriends(h) \/ PlSave(h) \/ PlPopulate(h)

SpecLikes == InitLikes /\ [][NextLikes]_vars

-----------------------------------------------------------------------------
\* Presence: connections binding users, activity pings and both disconnects.

\* Both transports have connected; no identity is bound yet.
InitOpen ==
  /\ now = 0
  /\ users = [u \in UserIds |-> [isOnline |-> FALSE, lastSeen |-> 0, socketId |-> Null]]
  /\ messages = <<>>
  /\ friendships = InitFriendships
  /\ conn = [s \in Sockets |-> [st |-> "open", currentUser |-> Null, rooms |-> {s}]]
  /\ hs = <<>>
  /\ log = <<>>
  /\ posts = InitPosts

NextPresence ==
  \/ Tick
  \/ \E s \in Sockets : Disconnect(s)
  \/ \E p \in {<<S1, U1>>, <<S2, U1>>, <<S2, U2>>} : RecvUserConnected(p[1], p[2])
  \/ \E p \in {<<S1, U1>>, <<S2, U1>>, <<S2, Null>>} : RecvUserDisconnected(p[1], p[2])
  \/ RecvUserActive(S2, U1)
  \/ RecvUserInactive(S2, U1)
  \/ \E h \in 1..MaxEvents : StepPresence(h)

SpecPresence == InitOpen /\ [][NextPresence]_vars

-----------------------------------------------------------------------------
\* Rooms: identified connections joining pair channels, sending, acknowledging
\* reads and closing.

\* U1 is identified on S1 and U2 on S2; each user-connected has completed.
InitIdentified ==
  /\ now = 0
  /\ users = [u \in UserIds |->
                IF u = U1 THEN [isOnline |-> TRUE, lastSeen |-> 0, socketId |-> S1]
                ELSE IF u = U2 THEN [isOnline |-> TRUE, lastSeen |-> 0, socketId |-> S2]
                ELSE [isOnline |-> FALSE, lastSeen |-> 0, socketId |-> Null]]
  /\ messages = <<>>
  /\ friendships = InitFriendships
  /\ conn = [s \in Sockets |->
               [st |-> "open",
                currentUser |-> IF s = S1 THEN <<U1>> ELSE <<U2>>,
                rooms |-> {s, IF s = S1 THEN U1 ELSE U2}]]
  /\ hs = <<>>
  /\ log = <<>>
  /\ posts = InitPosts

\* U1 is identified on both connections, on S2 last; both have completed.
InitTwoSessions ==
  /\ now = 0
  /\ users = [u \in UserIds |->
                IF u = U1 THEN [isOnline |-> TRUE, lastSeen |-> 0, socketId |-> S2]
                ELSE [isOnline |-> FALSE, lastSeen |-> 0, socketId |-> Null]]
  /\ messages = <<>>
  /\ friendships = InitFriendships
  /\ conn = [s \in Sockets |->
               [st |-> "open", currentUser |-> <<U1>>, rooms |-> {s, U1}]]
  /\ hs = <<>>
  /\ log = <<>>
  /\ posts = InitPosts

InitRooms == InitOpen \/ InitIdentified \/ InitTwoSessions

\* "hi"
Hi == <<104, 105>>

StepMark(h) == MrUpdate(h) \/ MrFind(h) \/ MrNotify(h)

NextRooms ==
  \/ Tick
  \/ \E s \in Sockets : JoinChat(s, U1, U2)
  \/ JoinChat(S2, U2, U1)
  \/ \E u \in {U2, U3} : RecvUserConnected(S2, u)
  \/ RecvSendMessage(S1, U1, U2, Hi)
  \/ \E s \in Sockets : RecvMarkRead(s, U1, U2)
  \/ Disconnect(S2)
  \/ \E h \in 1..MaxEvents :
       \/ StepSend(h) \/ StepMark(h)
       \/ UcUpdate(h) \/ UcJoin(h) \/ DcUpdate(h) \/ DcEmit(h)

SpecRooms == InitRooms /\ [][NextRooms]_vars

\* Mailbox: S2 identifies as U2, may join the pair channel and may close, while
\* the unidentified S1 sends to U2.
NextMailbox ==
  \/ JoinChat(S2, U1, U2)
  \/ RecvUserConnected(S2, U2)
  \/ RecvSendMessage(S1, U1, U2, Hi)
  \/ Disconnect(S2)
  \/ \E h \in 1..MaxEvents :
       StepSend(h) \/ UcUpdate(h) \/ UcJoin(h) \/ DcUpdate(h) \/ DcEmit(h)

SpecMailbox == InitOpen /\ [][NextMailbox]_vars

\* Scenario: both users identified; they join the pair channel, U1 sends "hi"
\* and U2 acknowledges reading.
NextScenario ==
  \/ Tick
  \/ \E s \in Sockets : JoinChat(s, U1, U2)
  \/ RecvSendMessage(S1, U1, U2, Hi)
  \/ RecvMarkRead(S2, U1, U2)
  \/ \E h \in 1..MaxEvents : StepSend(h) \/ StepMark(h)

SpecScenario == InitIdentified /\ [][NextScenario]_vars

\* Friends: the friend routes interleaved with each other and with a send.

\* Requests: U2 and U3 to each other, U1 to itself under both spellings of
\* its id, U3 to U1 (who has a pending request to U3), and one with no recipient.
FriendRequestPayloads ==
  {<<U2, U3>>, <<U3, U2>>, <<U1, U1>>, <<U1, U1Upper>>, <<U3, U1>>, <<U1, Null>>}

\* Answers: to the pending request of Init by its recipient and by its
\* requester, to the request the first handler made, and one with no
\* friendshipId.
FriendAnswerPayloads ==
  {<<U3, 2>>, <<U1, 2>>, <<U3, NewEdgeId(1)>>, <<U1, NewEdgeId(1)>>, <<U1, 0>>}

NextFriends ==
  \/ \E p \in FriendRequestPayloads : RecvFriendRequest(p[1], p[2])
  \/ \E accept \in BOOLEAN, p \in FriendAnswerPayloads : RecvFriendAnswer(accept, p[1], p[2])
  \/ RecvRemoveFriend(U1, U2)
  \/ \E b \in {U1, U3} : RecvSendMessage(S1, U1, b, Hi)
  \/ \E h \in 1..MaxEvents : StepFriends(h) \/ StepRemove(h) \/ StepSend(h)

SpecFriends == InitOpen /\ [][NextFriends]_vars

-----------------------------------------------------------------------------
\* Fallback: the same payloads sent over the socket and posted to
\* /api/messages, interleaved with a friend removal.

\* Friends with padded content, a pending pair, blank content, no recipient,
\* no content.
FallbackPayloads ==
  {<<U1, U2, <<32, 104, 32>>>>, <<U1, U3, <<104>>>>, <<U1, U2, <<32>>>>,
   <<U1, Null, <<104>>>>, <<U1, U2, Null>>}

NextFallback ==
  \/ \E p \in FallbackPayloads : RecvSendMessage(S1, p[1], p[2], p[3])
  \/ \E p \in FallbackPayloads : RecvPostMessage(p[1], p[2], p[3])
  \/ RecvRemoveFriend(U2, U1)
  \/ \E h \in 1..MaxEvents : StepSend(h) \/ StepCreate(h) \/ StepRemove(h)

SpecFallback == InitOpen /\ [][NextFallback]_vars

-----------------------------------------------------------------------------
\* Sessions: U1 identified on two connections, S1 first and S2 last, and U2
\* on a third; U2 writes and sends notices to U1, and S2 may join the pair
\* channel or close.
InitThreeSessions ==
  /\ now = 0
  /\ users = [u \in UserIds |->
                IF u = U1 THEN [isOnline |-> TRUE, lastSeen |-> 0, socketId |-> S2]
                ELSE IF u = U2 THEN [isOnline |-> TRUE, lastSeen |-> 0, socketId |-> S3]
                ELSE [isOnline |-> FALSE, lastSeen |-> 0, socketId |-> Null]]
  /\ messages = <<>>
  /\ friendships = InitFriendships
  /\ conn = [s \in {S1, S2, S3} |->
               [st |-> "open",
                currentUser |-> IF s = S3 THEN <<U2>> ELSE <<U1>>,
                rooms |-> {s, IF s = S3 THEN U2 ELSE U1}]]
  /\ hs = <<>>
  /\ log = <<>>
  /\ posts = InitPosts

NextSessions ==
  \/ RecvSendMessage(S3, U2, U1, Hi)
  \/ \E sent \in BOOLEAN : FriendNotice(S3, sent, U1)
  \/ RecvSendMessage(S2, U1, U2, Hi)
  \/ JoinChat(S2, U1, U2)
  \/ Disconnect(S2)
  \/ \E h \in 1..MaxEvents : StepSend(h) \/ DcUpdate(h) \/ DcEmit(h)

SpecSessions == InitThreeSessions /\ [][NextSessions]_vars

-----------------------------------------------------------------------------
\* Typing: two identified users typing to each other, joining the pair channel
\* or not, one of them closing.
NextTyping ==
  \/ \E s \in Sockets : JoinChat(s, U1, U2)
  \/ \E isTyping \in BOOLEAN : Typing(S1, U1, U2, isTyping)
  \/ \E isTyping \in BOOLEAN : Typing(S2, U2, U1, isTyping)
  \/ RecvSendMessage(S1, U1, U2, Hi)
  \/ Disconnect(S2)
  \/ \E h \in 1..MaxEvents : StepSend(h) \/ DcUpdate(h) \/ DcEmit(h)

SpecTyping == InitIdentified /\ [][NextTyping]_vars

-----------------------------------------------------------------------------
\* typing-start / typing-stop emitted with no payload: the listener is no async
\* function and has no try/catch, so destructuring undefined throws out of the
\* listener; no uncaughtException handler is installed and the process exits.
\* Every transport closes with it and the handlers in flight never resume.
TypingNoPayload(s, isTyping) ==
  /\ Connected(s)
  /\ CanStart
  /\ hs' = Append([i \in 1..Len(hs) |->
                     IF Done(i) THEN hs[i] ELSE [hs[i] EXCEPT !.pc = "killed"]],
                  [Handler(IF isTyping THEN "typing-start" ELSE "typing-stop",
                           s, "thrown", Null, Null, Null) EXCEPT !.err = TRUE])
  /\ conn' = [x \in DOMAIN conn |-> [conn[x] EXCEPT !.st = "closed", !.rooms = {}]]
  /\ UNCHANGED <<posts, now, users, messages, friendships, log>>

-----------------------------------------------------------------------------
\* Failures: payloads that are missing and store calls that are rejected, on
\* one connection while the other is in use.

NextIsolation ==
  \/ \E isTyping \in BOOLEAN : TypingNoPayload(S1, isTyping)
  \/ \E isTyping \in BOOLEAN : Typing(S1, U1, Null, isTyping)
  \/ \E p \in {<<U1, U2, Hi>>, <<U1, Null, Hi>>} : RecvSendMessage(S1, p[1], p[2], p[3])
  \/ RecvUserConnected(S1, U1)
  \/ \E a \in {U1, Uab} : RecvMarkRead(S1, a, U2)
  \/ JoinChat(S2, U1, U2)
  \/ RecvSendMessage(S2, U2, U1, Hi)
  \/ Disconnect(S2)
  \/ \E h \in 1..MaxEvents :
       \/ StepSend(h) \/ StepMark(h)
       \/ UcUpdate(h) \/ UcJoin(h) \/ DcUpdate(h) \/ DcEmit(h)

SpecIsolation == InitIdentified /\ [][NextIsolation]_vars

-----------------------------------------------------------------------------
\* The pair channel, computed from whatever ids the clients supply: join-chat,
\* typing-start, typing-stop and send-message take both ids from the payload.

\* The ids of the payloads, in the order given: (a, a-b), (a-a, b), (b, a), (a, b).
ChannelPairs == {<<U1, Uab>>, <<Uaa, U2>>, <<U2, U1>>, <<U1, U2>>}

NextChannel ==
  \/ \E p \in ChannelPairs : JoinChat(S2, p[1], p[2])
  \/ \E p \in ChannelPairs, isTyping \in BOOLEAN : Typing(S1, p[1], p[2], isTyping)
  \/ \E p \in ChannelPairs : RecvSendMessage(S1, p[1], p[2], Hi)
  \/ \E h \in 1..MaxEvents : StepSend(h)

SpecChannel == InitOpen /\ [][NextChannel]_vars

-----------------------------------------------------------------------------
\* What the properties below speak about.

SendHandlers == {h \in 1..Len(hs) : hs[h].ev = "send-message"}

\* The emits of event ev made by handler h, as positions of the log.
EmitsBy(h, ev) == {i \in 1..Len(log) : log[i].h = h /\ log[i].ev = ev}

\* The Message documents handler h inserted.
RecordsBy(h) == {i \in 1..Len(messages) : messages[i].by = h}

\* An accepted edge joins x and y, whoever requested it.
HasAcceptedEdge(x, y) ==
  \E f \in friendships : f.status = "accepted" /\ {f.requester, f.recipient} = {x, y}

\* The terminal events of a send-message: the acknowledgment and the error.
Terminal(h) == EmitsBy(h, "message-delivered") \cup EmitsBy(h, "message-error")

\* Emit i went to the connection that handler h runs on and to no other; it
\* reached nobody only if that connection has closed.
ToOriginOnly(h, i) ==
  /\ log[i].via = "socket.emit"
  /\ \/ log[i].to = {hs[h].sock}
     \/ log[i].to = {} /\ conn[hs[h].sock].st = "closed"

\* x is c without its leading and trailing spaces.
IsTrimOf(x, c) ==
  /\ x = <<>> \/ (x[1] # 32 /\ x[Len(x)] # 32)
  /\ \E i, j \in 0..Len(c) :
       /\ i + Len(x) + j = Len(c)
       /\ SubSeq(c, i + 1, i + Len(x)) = x
       /\ \A k \in (1..i) \cup ((Len(c) - j + 1)..Len(c)) : c[k] = 32

\* The room of the pair {x, y}: the smaller id, a dash, the larger id.
IsPairRoom(room, x, y) ==
  \E lo, hi \in {x, y} :
    /\ {lo, hi} = {x, y}
    /\ ~LexLess(hi, lo)
    /\ room = lo \o <<45>> \o hi

-----------------------------------------------------------------------------
\* C1: a send-message with all three fields present whose friendship lookup
\* runs when no accepted edge joins sender and recipient (in either direction)
\* is answered "not friends"; such a handler creates no Message record,
\* publishes no new-message, sends no message-delivered, and ends with one
\* message-error emitted to its own connection only.
C1_Rejected(h) ==
  hs[h].r = "no" =>
    /\ hs[h].pc \in {"sm_checked", "done"}
    /\ hs[h].m = 0
    /\ RecordsBy(h) = {}
    /\ EmitsBy(h, "new-message") = {}
    /\ EmitsBy(h, "message-delivered") = {}
    /\ Done(h) => /\ Cardinality(EmitsBy(h, "message-error")) = 1
                  /\ \A i \in EmitsBy(h, "message-error") : ToOriginOnly(h, i)

C1_Lookup ==
  \A h \in 1..Len(hs) :
    (At(h, "sm_friends") /\ hs'[h].pc = "sm_checked"
       /\ ~HasAcceptedEdge(hs[h].a, hs[h].b)) => hs'[h].r = "no"

C1_NonFriendsRejected ==
  /\ [](\A h \in SendHandlers : C1_Rejected(h))
  /\ [][C1_Lookup]_vars

\* A send between the pending pair U1, U3 was rejected on a live connection.
C1_Witness ==
  \E h \in SendHandlers :
    /\ Done(h) /\ hs[h].r = "no" /\ hs[h].b = U3
    /\ \E i \in EmitsBy(h, "message-error") : log[i].to = {hs[h].sock}

-----------------------------------------------------------------------------
\* C2: a send-message that found its pair friends and met no failure has
\* added exactly one record (its sender, its recipient, the content trimmed,
\* type text, unread) and has published new-message exactly once to the pair
\* room and exactly once to the recipient's own room.
C2_OneRecordOneFanOut ==
  \A h \in SendHandlers :
    (Done(h) /\ ~hs[h].err /\ hs[h].r = "yes") =>
      /\ Cardinality(RecordsBy(h)) = 1
      /\ \A i \in RecordsBy(h) :
           /\ i = hs[h].m
           /\ messages[i].sender = hs[h].a
           /\ messages[i].recipient = hs[h].b
           /\ IsTrimOf(messages[i].content, hs[h].c)
           /\ messages[i].messageType = "text"
           /\ messages[i].isRead = FALSE
           /\ messages[i].readAt = Null
      /\ Cardinality(EmitsBy(h, "new-message")) = 2
      /\ Cardinality({i \in EmitsBy(h, "new-message") :
                        /\ log[i].via = "io.to"
                        /\ IsPairRoom(log[i].room, hs[h].a, hs[h].b)
                        /\ log[i].p.m = hs[h].m}) = 1
      /\ Cardinality({i \in EmitsBy(h, "new-message") :
                        /\ log[i].via = "socket.to"
                        /\ log[i].room = hs[h].b
                        /\ log[i].p.m = hs[h].m}) = 1

\* The padded content " h " was sent from U1 to U2 and stored as "h".
C2_Witness ==
  \E h \in SendHandlers :
    /\ Done(h) /\ ~hs[h].err /\ hs[h].r = "yes"
    /\ hs[h].c = <<32, 104, 32>>
    /\ hs[h].m # 0 /\ messages[hs[h].m].content = <<104>>

-----------------------------------------------------------------------------
\* C3: every send-message attempt, whatever its payload and wherever the
\* store fails, emits at most one terminal event, only to its own connection,
\* and in the end has emitted exactly one: message-delivered or message-error.
C3_AtMostOne(h) ==
  h \in SendHandlers =>
    /\ Cardinality(Terminal(h)) <= 1
    /\ \A i \in Terminal(h) : ToOriginOnly(h, i)
    /\ Done(h) <=> Cardinality(Terminal(h)) = 1

C3_ExactlyOneTerminal ==
  \A h \in 1..MaxEvents :
    /\ []C3_AtMostOne(h)
    /\ (h \in SendHandlers) ~> (Done(h) /\ Cardinality(Terminal(h)) = 1)

\* A send failed after its record was saved and the sender got message-error.
C3_Witness ==
  \E h \in SendHandlers :
    /\ Done(h) /\ hs[h].err /\ hs[h].m # 0
    /\ EmitsBy(h, "message-error") # {} /\ EmitsBy(h, "message-delivered") = {}

-----------------------------------------------------------------------------
\* The handlers that create Message records, on every path.
Creators ==
  {h \in 1..Len(hs) : hs[h].ev \in {"send-message", "post-message", "upload", "upload-audio"}}

\* Handler h gets the answer of its friendship lookup in this step.
LookupAnswered(h) ==
  \/ At(h, "sm_friends") /\ hs'[h].pc = "sm_checked"
  \/ At(h, "hc_friends") /\ hs'[h].pc = "hc_checked"

\* C4 as stated: on every creation path, interleaved with friend removal, an
\* accepted edge joins the sender and the recipient of a Message record at the
\* moment the record is created.
C4_EdgeAtCreation ==
  [][\A i \in (Len(messages) + 1)..Len(messages') :
       HasAcceptedEdge(messages'[i].sender, messages'[i].recipient)]_vars

\* C4 amended: on every creation path, interleaved with friend removal, every
\* Message record is created by a handler whose own friendship lookup, made
\* before the creation, found an accepted edge between the record's sender and
\* recipient (the lookup answers "friends" exactly when such an edge exists at
\* the lookup); the edge may be gone by the time the record is created.
C4_Gated(i) ==
  LET h == messages[i].by IN
    /\ h \in Creators
    /\ hs[h].r = "yes"
    /\ hs[h].a = messages[i].sender
    /\ hs[h].b = messages[i].recipient
    /\ hs[h].m = i

C4_Lookup ==
  \A h \in Creators :
    LookupAnswered(h) => (hs'[h].r = "yes" <=> HasAcceptedEdge(hs[h].a, hs[h].b))

C4_EdgeAtLookup ==
  /\ [](\A i \in 1..Len(messages) : C4_Gated(i))
  /\ [][C4_Lookup]_vars

\* An upload created a record of a pair whose edge a removal has deleted.
C4_Witness ==
  \E i \in 1..Len(messages) :
    /\ messages[i].by \in Creators
    /\ hs[messages[i].by].ev = "upload"
    /\ ~HasAcceptedEdge(messages[i].sender, messages[i].recipient)
    /\ \E g \in 1..Len(hs) : hs[g].ev = "remove-friend" /\ hs[g].res = 200

-----------------------------------------------------------------------------
\* The handlers that run a bulk read-update, and what each one has matched.
Readers == {g \in 1..Len(hs) : hs[g].ev \in {"mark-messages-read", "get-history"}}

\* Reader g has had its bulk update applied by the store.
Updated(g) ==
  \/ hs[g].ev = "mark-messages-read" /\ hs[g].pc \in {"mr_find", "mr_notify"}
  \/ hs[g].ev = "mark-messages-read" /\ Done(g) /\ hs[g].cut # 0
  \/ hs[g].ev = "get-history" /\ Done(g) /\ hs[g].res = 200

\* The sender and the recipient that reader g's update filters on.
ReadSender(g) == IF hs[g].ev = "get-history" THEN hs[g].b ELSE hs[g].a
ReadRecipient(g) == IF hs[g].ev = "get-history" THEN hs[g].a ELSE hs[g].b

\* The records that were read before the first event.
InitiallyRead == {i \in 1..Len(InitMessages) : InitMessages[i].isRead}

\* This step is the bulk update of mark-messages-read handler h.
MarkReadStep(h) ==
  h \in 1..Len(hs) /\ At(h, "mr_update") /\ hs'[h].pc = "mr_find"

\* C5: the bulk update of mark-messages-read(A, B) is one step of the store,
\* taken between the creations of messages and never together with one; a
\* message created after that step is untouched by it: a record is read only
\* if a bulk update of its direction was applied when the record already
\* existed, so with one mark-messages-read and concurrent sends from A to B
\* every message created after the update is unread when both have finished.
C5_ReadHasCutoff(i) ==
  messages[i].isRead =>
    \/ i \in InitiallyRead
    \/ \E g \in Readers :
         /\ Updated(g)
         /\ i <= hs[g].cut
         /\ messages[i].sender = ReadSender(g)
         /\ messages[i].recipient = ReadRecipient(g)
         /\ messages[i].readAt = <<hs[g].t>>

C5_OneStep ==
  \A h \in 1..Len(hs) :
    MarkReadStep(h) =>
      /\ Len(messages') = Len(messages)
      /\ hs'[h].cut = Len(messages)
      /\ \A i \in 1..Len(messages) :
           (messages[i].sender = hs[h].a /\ messages[i].recipient = hs[h].b)
             => messages'[i].isRead

-----------------------------------------------------------------------------
\* C6: the bulk update of mark-messages-read(senderId = A, recipientId = B)
\* changes only records with sender A, recipient B and isRead false, and of
\* those only isRead and readAt; every other record (from B to A, of another
\* pair, or already read, readAt included) and every other store is unchanged.
C6_Frame(h) ==
  /\ Len(messages') = Len(messages)
  /\ \A i \in 1..Len(messages) :
       IF /\ messages[i].sender = hs[h].a
          /\ messages[i].recipient = hs[h].b
          /\ messages[i].isRead = FALSE
       THEN messages'[i] = [messages[i] EXCEPT !.isRead = messages'[i].isRead,
                                               !.readAt = messages'[i].readAt]
       ELSE messages'[i] = messages[i]
  /\ UNCHANGED <<posts, users, friendships>>

-----------------------------------------------------------------------------
\* C7: in every step of every socket event and message request no record is
\* deleted, no record's sender, recipient, content or type changes, and a
\* record that is read stays read with the readAt it got.
C7_Step ==
  /\ Len(messages') >= Len(messages)
  /\ \A i \in 1..Len(messages) :
       /\ messages'[i].sender = messages[i].sender
       /\ messages'[i].recipient = messages[i].recipient
       /\ messages'[i].content = messages[i].content
       /\ messages'[i].messageType = messages[i].messageType
       /\ messages[i].isRead => (messages'[i].isRead /\ messages'[i].readAt = messages[i].readAt)

C7_Immutable == [][C7_Step]_vars

\* The store has grown by a request's record, and after a tick the history
\* request of U2 has read record 2 beside record 1, which was read before.
C7_Witness ==
  /\ Len(messages) > Len(InitMessages)
  /\ messages[Len(messages)].by # 0
  /\ hs[messages[Len(messages)].by].ev = "post-message"
  /\ messages[1].isRead /\ messages[1].readAt = <<0>>
  /\ messages[2].isRead /\ messages[2].readAt = <<1>>
  /\ \E g \in Readers : hs[g].ev = "get-history" /\ Updated(g)

-----------------------------------------------------------------------------
\* The handlers of the transport disconnect, and the user-connected handlers
\* a connection has had.
Disconnects == {d \in 1..Len(hs) : hs[d].ev = "disconnect"}

Identifications(s) ==
  {k \in 1..Len(hs) : hs[k].ev = "user-connected" /\ hs[k].sock = s}

\* No user-connected event has been received on connection s.
NeverIdentified(s) == Identifications(s) = {}

\* Handler h has changed no user record and broadcast no status.
NoPresenceEffect(h) ==
  hs[h].wrote = {} /\ EmitsBy(h, "user-status-update") = {}

\* C8 as stated: the disconnect handler of a connection on which no
\* user-connected has completed changes no user record and emits no
\* user-status-update.
C8_NeverCompleted ==
  \A d \in Disconnects :
    (\A k \in Identifications(hs[d].sock) : ~(Done(k) /\ ~hs[k].err))
      => NoPresenceEffect(d)

\* C8 amended: when the transport disconnect of a connection that never
\* received a user-connected event is handled, no user record (online flag,
\* lastSeen, handle) is changed and no user-status-update is emitted to any
\* connection: the handler ends in the step that starts it.
C8_Handled ==
  \A s \in Sockets :
    (conn[s].st = "open" /\ conn'[s].st = "closed" /\ NeverIdentified(s)) =>
      /\ users' = users
      /\ log' = log
      /\ Len(hs') = Len(hs) + 1
      /\ hs'[Len(hs')].ev = "disconnect"
      /\ hs'[Len(hs')].pc = "done"

C8_NeverIdentified ==
  /\ [](\A d \in Disconnects :
          NeverIdentified(hs[d].sock) => (Done(d) /\ NoPresenceEffect(d)))
  /\ [][C8_Handled]_vars

\* A connection sent user-active, which wrote a user record, never sent
\* user-connected, and its disconnect has been handled.
C8_Witness ==
  \E d \in Disconnects :
    /\ NeverIdentified(hs[d].sock)
    /\ Done(d)
    /\ \E k \in 1..Len(hs) :
         hs[k].ev = "user-active" /\ hs[k].sock = hs[d].sock /\ hs[k].wrote # {}

-----------------------------------------------------------------------------
\* C9: once user-connected(u) and then the disconnect of the same connection
\* have both completed without failure, and no other handler has written the
\* record of u, the record has isOnline false, socketId null and a lastSeen no
\* earlier than the moment the disconnect handler was invoked.
C9_OfflineAfterDisconnect ==
  \A d \in Disconnects :
    \A k \in Identifications(hs[d].sock) :
      ( /\ k < d
        /\ hs[k].a = hs[d].a
        /\ Done(k) /\ ~hs[k].err
        /\ Done(d) /\ ~hs[d].err
        /\ \A j \in 1..Len(hs) : j \in {k, d} \/ hs[d].a \notin hs[j].wrote )
      => /\ users[hs[d].a].isOnline = FALSE
         /\ users[hs[d].a].socketId = Null
         /\ users[hs[d].a].lastSeen >= hs[d].t

-----------------------------------------------------------------------------
\* The identity bound to the connection of handler h when h was started: the
\* user of the latest user-connected received before it, if there is one.
BoundAt(h) ==
  LET before == {k \in Identifications(hs[h].sock) : k < h} IN
    IF before = {} THEN {}
    ELSE {hs[CHOOSE k \in before : \A j \in before : j <= k].a}

\* C10: user-disconnected and the transport disconnect reconcile alike: each
\* writes the record of, and broadcasts for, no user but the identity bound to
\* its connection, and neither writes nor broadcasts when none is bound.
C10_SameReconciliation ==
  \A h \in 1..Len(hs) :
    hs[h].ev \in {"user-disconnected", "disconnect"} =>
      /\ hs[h].wrote \subseteq BoundAt(h)
      /\ \A i \in EmitsBy(h, "user-status-update") : log[i].p.userId \in BoundAt(h)

-----------------------------------------------------------------------------
\* The handlers of socket events (the requests of the routes have no socket).
SocketHandlers == {h \in 1..Len(hs) : hs[h].sock \in Sockets}

\* C11: two handlers of the same connection are never in flight together: an
\* event of a connection starts being handled only when the handler of every
\* earlier event of that connection has run to completion.
C11_OneAtATime ==
  \A h, g \in SocketHandlers :
    (h < g /\ hs[h].sock = hs[g].sock) => (Done(h) \/ Done(g))

-----------------------------------------------------------------------------
\* The publishes of new-message to pair room `room`, as positions of the log.
PublishedTo(room) ==
  {i \in 1..Len(log) :
     log[i].ev = "new-message" /\ log[i].via = "io.to" /\ log[i].room = room}

\* C12: on every pair channel new-message is published in the order in which
\* the records were persisted, and only for records that are persisted.
C12_PublishInPersistOrder ==
  \A i, j \in 1..Len(log) :
    (i < j /\ i \in PublishedTo(log[i].room) /\ j \in PublishedTo(log[i].room)) =>
      /\ log[i].p.m \in 1..Len(messages)
      /\ log[j].p.m \in 1..Len(messages)
      /\ log[i].p.m < log[j].p.m

-----------------------------------------------------------------------------
\* C13: a join-chat received on a connection to which no user-connected has
\* bound an identity is ignored: the rooms the connection has joined stay as
\* they are and nothing is emitted.
C13_IgnoredBeforeBinding ==
  [][\A s \in Sockets :
       (conn[s].currentUser = Null /\ conn'[s].currentUser = Null /\ conn'[s].st = "open")
         => (conn'[s].rooms = conn[s].rooms)]_vars

-----------------------------------------------------------------------------
\* Every string of at most three code units over "a", "b" and "-".
IdChars == {97, 98, 45}
RawIds ==
  {<<>>} \cup {<<x>> : x \in IdChars} \cup {<<x, y>> : x, y \in IdChars}
    \cup {<<x, y, z>> : x, y, z \in IdChars}

\* The handlers whose payload names a pair, and the room each one emitted to.
PairHandlers ==
  {h \in 1..Len(hs) : hs[h].ev \in {"typing-start", "typing-stop", "send-message"}}

RoomsOf(h) ==
  {log[i].room : i \in {j \in 1..Len(log) :
     /\ log[j].h = h
     /\ \/ log[j].ev = "user-typing"
        \/ log[j].ev = "new-message" /\ log[j].via = "io.to"}}

\* C14: the pair room is the same whichever id comes first: for all ids a, b
\* the room of (a, b) is the room of (b, a), and the room that send-message,
\* typing-start and typing-stop emit to and that join-chat joins is the room
\* of the payload's ids exchanged.
C14_Function == \A a, b \in RawIds : ChatRoom(a, b) = ChatRoom(b, a)

C14_Join ==
  \A s \in Sockets :
    (hs' = hs /\ conn'[s].st = "open" /\ conn'[s].rooms # conn[s].rooms) =>
      \E p \in ChannelPairs : conn'[s].rooms = conn[s].rooms \cup {ChatRoom(p[2], p[1])}

C14_OrderIndependent ==
  /\ [](C14_Function /\ \A h \in PairHandlers : RoomsOf(h) \subseteq {ChatRoom(hs[h].b, hs[h].a)})
  /\ [][C14_Join]_vars

\* S2 joined with the ids given as (b, a) or (a, b), and a typing event and a
\* message sent with the ids in the two orders reached it in that one room.
C14_Witness ==
  \E h, g \in PairHandlers :
    /\ hs[h].a = U1 /\ hs[h].b = U2 /\ hs[h].ev = "typing-start"
    /\ hs[g].a = U2 /\ hs[g].b = U1 /\ hs[g].ev = "send-message"
    /\ \E i \in EmitsBy(h, "user-typing"), j \in EmitsBy(g, "new-message") :
         /\ log[i].room = log[j].room
         /\ S2 \in log[i].to /\ S2 \in log[j].to

-----------------------------------------------------------------------------
\* C15: two payloads that name different unordered pairs of ids never emit to
\* the same room.
C15_CollisionFree ==
  \A h, g \in PairHandlers :
    {hs[h].a, hs[h].b} # {hs[g].a, hs[g].b} => RoomsOf(h) \cap RoomsOf(g) = {}

-----------------------------------------------------------------------------
\* user-connected(u) has completed on connection c, which is still open.
IdentifiedAs(c, u) ==
  /\ Connected(c)
  /\ \E k \in Identifications(c) : hs[k].a = u /\ Done(k) /\ ~hs[k].err

\* Handler h publishes its message in this step.
PublishStep(h) ==
  h \in SendHandlers /\ At(h, "sm_populate") /\ hs'[h].pc = "done" /\ ~hs'[h].err

\* The emits added to the log by this step.
NewEmits == (Len(log) + 1)..Len(log')

\* C16: once user-connected(u) has completed on a connection c that is still
\* open, a send-message to u from another connection that publishes its record
\* delivers new-message for that record to c, whether or not c has joined the
\* pair channel of the sender and u.
C16_Step ==
  \A h \in 1..Len(hs) : \A c \in Sockets :
    (PublishStep(h) /\ c # hs[h].sock /\ IdentifiedAs(c, hs[h].b)) =>
      \E i \in NewEmits :
        /\ log'[i].ev = "new-message"
        /\ log'[i].p.m = hs[h].m
        /\ c \in log'[i].to

C16_MailboxDelivery == [][C16_Step]_vars

\* S2 completed user-connected(U2), never joined the pair channel, and a
\* message sent afterwards from S1 reached it through the room of U2.
C16_Witness ==
  \E h \in SendHandlers : \E k \in Identifications(S2) :
    /\ k < h /\ hs[k].a = U2 /\ hs[h].b = U2 /\ hs[h].sock = S1
    /\ ChatRoom(U1, U2) \notin conn[S2].rooms
    /\ Connected(S2)
    /\ \E i \in EmitsBy(h, "new-message") :
         log[i].via = "socket.to" /\ log[i].to = {S2} /\ log[i].p.m = hs[h].m

-----------------------------------------------------------------------------
\* The mark-messages-read handlers.
MarkHandlers == {g \in 1..Len(hs) : hs[g].ev = "mark-messages-read"}

\* C17: with A and B friends and both identified: when A's send-message("hi")
\* publishes, every open connection that has joined the pair channel of A and
\* B gets new-message with the record whose content is "hi", and A's
\* connection gets message-delivered with that record's id and timestamp; and
\* when B's mark-messages-read(A, B) has found A's handle and finished, A's
\* connection, if still open, has got messages-read with recipientId = B.
C17_Publish ==
  \A h \in 1..Len(hs) :
    PublishStep(h) =>
      /\ \A x \in Sockets :
           (Connected(x) /\ ChatRoom(hs[h].b, hs[h].a) \in conn[x].rooms) =>
             \E i \in NewEmits :
               /\ log'[i].ev = "new-message" /\ x \in log'[i].to
               /\ log'[i].p.m \in 1..Len(messages)
               /\ messages[log'[i].p.m].by = h
               /\ messages[log'[i].p.m].sender = hs[h].a
               /\ messages[log'[i].p.m].recipient = hs[h].b
               /\ IsTrimOf(messages[log'[i].p.m].content, hs[h].c)
      /\ Connected(hs[h].sock) =>
           \E i \in NewEmits :
             /\ log'[i].ev = "message-delivered" /\ log'[i].to = {hs[h].sock}
             /\ log'[i].p.messageId \in 1..Len(messages)
             /\ messages[log'[i].p.messageId].by = h
             /\ log'[i].p.timestamp = messages[log'[i].p.messageId].createdAt

C17_Find ==
  \A g \in 1..Len(hs) :
    (g \in MarkHandlers /\ At(g, "mr_find") /\ hs'[g].pc = "mr_notify")
      => hs'[g].sid = users[hs[g].a].socketId

C17_Receipt ==
  \A g \in MarkHandlers : \A x \in Sockets :
    (Done(g) /\ ~hs[g].err /\ hs[g].sid = x /\ Connected(x)) =>
      \E i \in EmitsBy(g, "messages-read") :
        x \in log[i].to /\ log[i].p.recipientId = hs[g].b

C17_EndToEnd ==
  /\ []C17_Receipt
  /\ [][C17_Publish /\ C17_Find]_vars

\* The whole scenario has run: both connections had joined the pair channel
\* when "hi" was published, S1 got message-delivered for it, the record is read
\* and S1 got messages-read naming U2.
C17_Witness ==
  \E h \in SendHandlers : \E g \in MarkHandlers :
    /\ conn[S1].currentUser = <<U1>> /\ conn[S2].currentUser = <<U2>>
    /\ hs[h].sock = S1 /\ hs[g].sock = S2 /\ hs[g].a = U1 /\ hs[g].b = U2
    /\ hs[h].m # 0 /\ messages[hs[h].m].content = Hi /\ messages[hs[h].m].isRead
    /\ \E i \in EmitsBy(h, "new-message") : log[i].via = "io.to" /\ log[i].to = {S1, S2}
    /\ \E i \in EmitsBy(h, "message-delivered") :
         log[i].to = {S1} /\ log[i].p.messageId = hs[h].m
    /\ \E i \in EmitsBy(g, "messages-read") :
         log[i].to = {S1} /\ log[i].p.recipientId = U2

-----------------------------------------------------------------------------
\* Every emit made by handler h.
AllEmitsBy(h) == {i \in 1..Len(log) : log[i].h = h}

\* C18: a send-message whose senderId, recipientId or content is missing or
\* empty ends in the step that receives it, having emitted one message-error
\* ("Missing required fields") to its own connection and nothing else: it
\* makes no friendship lookup and creates no record.
C18_RejectedAtOnce ==
  \A h \in SendHandlers :
    (hs[h].a = <<>> \/ hs[h].b = <<>> \/ hs[h].c = <<>>) =>
      /\ Done(h)
      /\ hs[h].r = "none"
      /\ hs[h].m = 0
      /\ RecordsBy(h) = {}
      /\ Cardinality(AllEmitsBy(h)) = 1
      /\ \A i \in AllEmitsBy(h) :
           /\ log[i].ev = "message-error"
           /\ log[i].p.error = "Missing required fields"
           /\ log[i].via = "socket.emit"
           /\ log[i].to = {hs[h].sock}

\* A send-message with empty content and one with no senderId were rejected.
C18_Witness ==
  \E h, g \in SendHandlers :
    /\ hs[h].c = <<>> /\ hs[h].a # <<>> /\ hs[h].b # <<>>
    /\ hs[g].a = <<>>
    /\ AllEmitsBy(h) # {} /\ AllEmitsBy(g) # {}

-----------------------------------------------------------------------------
\* Connection x has closed without a transport disconnect of its own.
ClosedByOthers(x) ==
  conn[x].st = "closed" /\ \A d \in Disconnects : hs[d].sock # x

\* C19: a failure raised while handling an event of one connection stays in
\* its handler: the handler emits nothing to other connections, no connection
\* is closed by it, and the handlers of other connections are not stopped.
C19_FailuresIsolated ==
  \A h \in SocketHandlers :
    hs[h].err =>
      /\ \A i \in AllEmitsBy(h) : log[i].to \subseteq {hs[h].sock}
      /\ \A x \in Sockets : ~ClosedByOthers(x)
      /\ \A g \in SocketHandlers : hs[g].pc # "killed"

-----------------------------------------------------------------------------
\* The open connections on which user-connected(u) has completed: the ones
\* that have joined the room of u.
LiveSessions(u) == {x \in Sockets : Connected(x) /\ u \in conn[x].rooms}

\* C20: when mark-messages-read(senderId = A, recipientId = B) finishes
\* without a store failure and A has an open connection on which
\* user-connected(A) completed, messages-read with recipientId = B is
\* delivered to such a connection of A.
C20_Step ==
  \A g \in 1..Len(hs) :
    ( /\ g \in MarkHandlers
      /\ At(g, "mr_notify") /\ hs'[g].pc = "done"
      /\ LiveSessions(hs[g].a) # {} ) =>
    \E i \in NewEmits :
      /\ log'[i].ev = "messages-read"
      /\ log'[i].p.recipientId = hs[g].b
      /\ log'[i].to \cap LiveSessions(hs[g].a) # {}

C20_ReceiptToLiveSession == [][C20_Step]_vars

-----------------------------------------------------------------------------
\* The handlers of the five presence events.
PresenceHandlers ==
  {h \in 1..Len(hs) : hs[h].ev \in {"user-connected", "user-active", "user-inactive",
                                     "user-disconnected", "disconnect"}}

\* The open connections other than s.
LiveOthers(s) == {x \in Sockets : conn[x].st = "open" /\ x # s}

\* C21: a presence handler that has updated a user record emits, when it
\* finishes, exactly one user-status-update, naming that user, to every
\* connection open at that moment other than its own and not to its own; it
\* emits no other user-status-update, before or after.
C21_Count ==
  \A h \in PresenceHandlers :
    /\ Cardinality(EmitsBy(h, "user-status-update")) =
         (IF Done(h) /\ hs[h].wrote # {} THEN 1 ELSE 0)
    /\ \A i \in EmitsBy(h, "user-status-update") :
         /\ hs[h].wrote = {CastId(log[i].p.userId)}
         /\ hs[h].sock \notin log[i].to

C21_Step ==
  \A i \in NewEmits :
    log'[i].ev = "user-status-update" => log'[i].to = LiveOthers(hs[log'[i].h].sock)

C21_OneStatusUpdateToOthers == []C21_Count /\ [][C21_Step]_vars

\* Each of the two connections has finished a presence update whose status
\* event reached the other one.
C21_Witness ==
  \E h, g \in PresenceHandlers :
    /\ hs[h].sock = S1 /\ hs[g].sock = S2
    /\ Done(h) /\ Done(g) /\ hs[h].wrote # {} /\ hs[g].wrote # {}
    /\ \E i \in EmitsBy(h, "user-status-update") : log[i].to = {S2}
    /\ \E i \in EmitsBy(g, "user-status-update") : log[i].to = {S1}

-----------------------------------------------------------------------------
\* The typing-start and typing-stop handlers.
TypingHandlers == {h \in 1..Len(hs) : hs[h].ev \in {"typing-start", "typing-stop"}}

\* C22: the step that handles typing-start or typing-stop leaves the Message
\* store, the user records, the friendships and every connection's rooms as
\* they were, and emits one user-typing whose receivers are the open
\* connections joined to the pair channel of (senderId, recipientId), less the
\* emitting connection; no other handler ever emits user-typing.
C22_Step ==
  (Len(hs') = Len(hs) + 1 /\ hs'[Len(hs')].ev \in {"typing-start", "typing-stop"}) =>
    LET h == hs'[Len(hs')] IN
      /\ messages' = messages /\ users' = users /\ friendships' = friendships
      /\ conn' = conn
      /\ Len(log') = Len(log) + 1
      /\ log'[Len(log')].ev = "user-typing"
      /\ log'[Len(log')].h = Len(hs')
      /\ log'[Len(log')].to =
           {x \in Sockets : /\ conn[x].st = "open"
                            /\ ChatRoom(h.b, h.a) \in conn[x].rooms
                            /\ x # h.sock}

C22_OnlyTyping ==
  \A i \in 1..Len(log) : log[i].ev = "user-typing" => log[i].h \in TypingHandlers

C22_TypingToChannelOnly == []C22_OnlyTyping /\ [][C22_Step]_vars

\* S2 is open and subscribed to the mailbox of U2 but not to the pair channel:
\* a first typing event of S1 to U2 reached nobody; S2 then joined the
\* channel and the next one reached it.
C22_Witness ==
  /\ Len(hs) = 2 /\ hs[1].ev = "typing-start" /\ hs[2].ev = "typing-stop"
  /\ hs[1].sock = S1 /\ hs[2].sock = S1
  /\ conn[S2].st = "open" /\ U2 \in conn[S2].rooms
  /\ \E i \in EmitsBy(1, "user-typing") : log[i].to = {}
  /\ \E i \in EmitsBy(2, "user-typing") : log[i].to = {S2}

-----------------------------------------------------------------------------
\* C23: the Friendship store never holds two edges for one unordered pair of
\* users.
C23_OneEdgePerPair ==
  \A f, g \in friendships :
    {f.requester, f.recipient} = {g.requester, g.recipient} => f = g

-----------------------------------------------------------------------------
\* C24: a send-message that reaches its publish has its record in the store
\* and acknowledges its sender with message-delivered for that record, whoever
\* is subscribed; new-message events are emitted only in that step, by the
\* handler that created the record they carry, and what an emit reached is
\* never changed afterwards: nothing is queued for a connection that
\* subscribes later.
C24_Step ==
  /\ Len(log') >= Len(log) /\ SubSeq(log', 1, Len(log)) = log
  /\ \A i \in NewEmits :
       log'[i].ev = "new-message" =>
         PublishStep(log'[i].h) /\ log'[i].p.m = hs[log'[i].h].m
  /\ \A h \in 1..Len(hs) :
       PublishStep(h) =>
         /\ hs[h].m \in 1..Len(messages') /\ messages'[hs[h].m].by = h
         /\ \E i \in NewEmits :
              /\ log'[i].ev = "message-delivered"
              /\ log'[i].to = (IF conn[hs[h].sock].st = "open" THEN {hs[h].sock} ELSE {})
              /\ log'[i].p.messageId = hs[h].m

C24_BestEffortNeverQueued == [][C24_Step]_vars

\* U1 sent to U2 while no connection was subscribed for U2: the record is
\* stored, S1 was acknowledged and no connection got new-message; S2 has
\* since completed user-connected(U2) and is in the mailbox of U2.
C24_Witness ==
  \E h \in SendHandlers : \E k \in Identifications(S2) :
    /\ h < k /\ hs[h].sock = S1 /\ hs[h].b = U2 /\ hs[k].a = U2
    /\ Done(k) /\ ~hs[k].err /\ U2 \in conn[S2].rooms
    /\ hs[h].m \in 1..Len(messages)
    /\ \E i \in EmitsBy(h, "message-delivered") : log[i].to = {S1}
    /\ \A i \in 1..Len(log) : log[i].ev = "new-message" => log[i].to = {}
    /\ \E i \in EmitsBy(h, "new-message") : i < Len(log)

-----------------------------------------------------------------------------
\* The requests to POST /api/messages.
PostHandlers == {g \in 1..Len(hs) : hs[g].ev = "post-message"}

\* How a finished handler of either path ended: with a record, refused for
\* want of a friendship, in its catch block, or refused at validation.
Outcome(h) ==
  IF hs[h].m # 0 THEN "accepted"
  ELSE IF hs[h].err THEN "failed"
  ELSE IF hs[h].r = "no" THEN "not-friends"
  ELSE "invalid"

\* C25: a send-message and a POST /api/messages with the same sender,
\* recipient and content, handled over the same friendships, agree: the
\* friendship lookup answers both alike and, when no store call failed, both
\* end alike; when both are accepted each has created one record, and the two
\* records have the same sender, recipient, trimmed content and type text.
\* The POST emits nothing.
C25_Agree ==
  \A h \in SendHandlers : \A g \in PostHandlers :
    ( /\ hs[h].a = hs[g].a /\ hs[h].b = hs[g].b /\ hs[h].c = hs[g].c
      /\ Done(h) /\ Done(g)
      /\ friendships = InitFriendships ) =>
      /\ (hs[h].r # "none" /\ hs[g].r # "none") => hs[h].r = hs[g].r
      /\ (~hs[h].err /\ ~hs[g].err) =>
           /\ Outcome(h) = Outcome(g)
           /\ Outcome(h) = "accepted" =>
                /\ RecordsBy(h) = {hs[h].m} /\ RecordsBy(g) = {hs[g].m}
                /\ messages[hs[h].m].sender = messages[hs[g].m].sender
                /\ messages[hs[h].m].recipient = messages[hs[g].m].recipient
                /\ messages[hs[h].m].content = messages[hs[g].m].content
                /\ messages[hs[g].m].content = Trim(hs[g].c)
                /\ messages[hs[h].m].messageType = "text"
                /\ messages[hs[g].m].messageType = "text"
           /\ Outcome(h) # "accepted" => RecordsBy(h) = {} /\ RecordsBy(g) = {}

C25_FallbackEquivalent ==
  /\ C25_Agree
  /\ \A g \in PostHandlers : AllEmitsBy(g) = {}

\* " h " was sent over the socket and posted, and both were accepted; the
\* store holds two records with content "h".
C25_Witness ==
  \E h \in SendHandlers : \E g \in PostHandlers :
    /\ hs[h].c = <<32, 104, 32>> /\ hs[g].c = <<32, 104, 32>>
    /\ hs[h].b = U2 /\ hs[g].b = U2
    /\ Done(h) /\ Done(g) /\ ~hs[h].err /\ ~hs[g].err
    /\ Outcome(h) = "accepted" /\ Outcome(g) = "accepted"
    /\ messages[hs[h].m].content = <<104>> /\ messages[hs[g].m].content = <<104>>
    /\ hs[g].res = 200

-----------------------------------------------------------------------------
\* C26: no accepted edge joins a user to itself, and a send-message whose
\* senderId equals its recipientId creates no record and, once finished, has
\* answered with message-error.
C26_SelfRecord ==
  \E h \in SendHandlers : hs[h].a = hs[h].b /\ RecordsBy(h) # {}

C26_NoSelfMessaging ==
  /\ \A f \in friendships : f.status = "accepted" => f.requester # f.recipient
  /\ ~C26_SelfRecord
  /\ \A h \in SendHandlers :
       (hs[h].a = hs[h].b /\ Done(h)) => EmitsBy(h, "message-error") # {}

-----------------------------------------------------------------------------
\* No handler is in flight.
Quiescent == \A h \in 1..Len(hs) : hs[h].pc = "done"

\* The open connections whose currentUser is u.
BoundTo(u) == {s \in Sockets : conn[s].st = "open" /\ conn[s].currentUser = <<u>>}

\* C27: whenever no handler is in flight, and none has failed at the store, a
\* user is recorded online exactly when some open connection is bound to it.
C27_OnlineIffBound ==
  (Quiescent /\ \A h \in 1..Len(hs) : ~hs[h].err) =>
    \A u \in UserIds : users[u].isOnline <=> BoundTo(u) # {}

-----------------------------------------------------------------------------
\* The emits of this step that socket.to(...) addressed to the personal room
\* of a user.
NewMailboxEmits ==
  {i \in NewEmits : log'[i].via = "socket.to" /\ log'[i].room \in UserIds}

\* The open connections subscribed to the personal room of u.
Subscribed(u) == {x \in DOMAIN conn : conn[x].st = "open" /\ u \in conn[x].rooms}

\* C28 as stated: while u has two open connections that completed
\* user-connected(u), an event addressed to the mailbox of u reaches no
\* connection but the one that bound last (the one the user record names).
C28_Latest ==
  \A i \in NewMailboxEmits :
    LET u == log'[i].room IN
      Cardinality(Subscribed(u)) >= 2 => log'[i].to \subseteq {users[u].socketId}

C28_OnlyMostRecent == [][C28_Latest]_vars

\* C28 amended: an event addressed to the mailbox of u (new-message of
\* send-message, friend-request-received, friend-request-response) reaches
\* every open connection that completed user-connected(u), the earlier ones
\* as well as the latest, except the connection that emits it.
C28_All ==
  \A i \in NewMailboxEmits :
    log'[i].to = Subscribed(log'[i].room) \ {hs'[log'[i].h].sock}

C28_EverySession == [][C28_All]_vars

\* A message and a friend-request notice from U2's connection each reached
\* both connections of U1, while the user record named S2 only.
C28_Witness ==
  /\ users[U1].socketId = S2
  /\ \E i \in 1..Len(log) :
       /\ log[i].ev = "new-message" /\ log[i].via = "socket.to"
       /\ log[i].room = U1 /\ log[i].to = {S1, S2}
  /\ \E i \in 1..Len(log) :
       /\ log[i].ev = "friend-request-received"
       /\ log[i].room = U1 /\ log[i].to = {S1, S2}

-----------------------------------------------------------------------------
\* The isOnline value the handler of a presence event puts in its broadcast.
Announced(ev) == ev \in {"user-connected", "user-active"}

\* Handler h gets the answer of its findByIdAndUpdate in this step.
UpdateStep(h) ==
  /\ h \in PresenceHandlers
  /\ hs[h].wrote = {} /\ hs'[h].wrote # {}

\* C29: the isOnline value a presence handler broadcasts is the online flag
\* its user's record holds right after the handler's own update.
C29_Carried ==
  \A h \in PresenceHandlers : \A i \in EmitsBy(h, "user-status-update") :
    log[i].p.isOnline = Announced(hs[h].ev)

C29_Stored ==
  \A h \in 1..Len(hs) :
    UpdateStep(h) => \A u \in hs'[h].wrote : users'[u].isOnline = Announced(hs[h].ev)

C29_StatusMatchesStore == []C29_Carried /\ [][C29_Stored]_vars

-----------------------------------------------------------------------------
\* The new-message events carrying record m that reached connection x.
Received(x, m) ==
  {i \in 1..Len(log) : log[i].ev = "new-message" /\ log[i].p.m = m /\ x \in log[i].to}

\* C30: no connection receives new-message for one record more than once.
C30_AtMostOnce ==
  \A m \in 1..Len(messages) : \A x \in DOMAIN conn : Cardinality(Received(x, m)) <= 1

-----------------------------------------------------------------------------
\* The records this step adds to the Message store.
NewRecords == (Len(messages) + 1)..Len(messages')

\* C31: a record saved by a send-message handler has as sender the identity
\* bound to the connection the event came from.
C31_Step ==
  \A i \in NewRecords :
    messages'[i].by \in SendHandlers =>
      conn[hs[messages'[i].by].sock].currentUser = <<messages'[i].sender>>

C31_SenderIsBoundIdentity == [][C31_Step]_vars

-----------------------------------------------------------------------------
\* C32: a new-message event reaches no connection bound to a user other
\* than the sender and the recipient of the record it carries.
C32_Step ==
  \A i \in NewEmits :
    log'[i].ev = "new-message" =>
      \A x \in log'[i].to :
        \/ conn[x].currentUser = Null
        \/ conn[x].currentUser = <<messages[log'[i].p.m].sender>>
        \/ conn[x].currentUser = <<messages[log'[i].p.m].recipient>>

C32_OnlyToParties == [][C32_Step]_vars

-----------------------------------------------------------------------------
\* The records this step turns from unread to read.
NewlyRead ==
  {i \in 1..Len(messages) : ~messages[i].isRead /\ messages'[i].isRead}

\* Reader g acts for user u: a history fetch in the session of u, or a
\* mark-messages-read from a connection bound to u.
ActsFor(g, u) ==
  IF hs[g].ev = "get-history" THEN hs[g].a = u
  ELSE hs[g].sock \in DOMAIN conn /\ conn[hs[g].sock].currentUser = <<u>>

\* C33: a record turns read only in the bulk update of a reader that acts for
\* the record's recipient.
C33_Step ==
  \A i \in NewlyRead :
    \E g \in Readers :
      /\ hs[g].pc \in {"mr_update", "gh_update"} /\ hs'[g].pc # hs[g].pc
      /\ ActsFor(g, messages[i].recipient)

C33_ReadByRecipientOnly == [][C33_Step]_vars



-----------------------------------------------------------------------------
\* C34: once a connection has closed, its disconnect handler has completed and
\* no other handler of that connection is in flight (none of them having
\* failed), no user record stores that connection as its socketId.
SettledClosed(s) ==
  /\ conn[s].st = "closed"
  /\ \E d \in Disconnects : hs[d].sock = s
  /\ \A h \in 1..Len(hs) : hs[h].sock = s => Done(h) /\ ~hs[h].err

C34_NoHandleAfterClose ==
  \A s \in DOMAIN conn :
    SettledClosed(s) => \A u \in UserIds : users[u].socketId # s


-----------------------------------------------------------------------------
\* The most recent limit documents between x and y, in ascending createdAt.
LatestBetween(M, x, y, limit) ==
  LET I == Between(M, x, y)
      n == Cardinality(I)
      skip == IF n > limit THEN n - limit ELSE 0 IN
  [k \in 1..(n - skip) |-> CHOOSE i \in I : Rank(M, I, i) = skip + k - 1]

HistoryHandlers == {h \in 1..Len(hs) : hs[h].ev = "get-history"}

\* C35: the list the history route answers with is the most recent
\* HistoryLimit messages between the two users, in ascending creation order,
\* also when the conversation holds more than HistoryLimit messages.
C35_Step ==
  \A h \in HistoryHandlers :
    hs[h].pc = "gh_find" /\ hs'[h].pc = "gh_update" =>
      hs'[h].list = LatestBetween(messages, hs[h].a, hs[h].b, HistoryLimit)

C35_MostRecentAscending == [][C35_Step]_vars

\* C36: every message a history request marks read is in the list the same
\* request answers with.
C36_Step ==
  \A h \in HistoryHandlers :
    hs[h].pc = "gh_update" /\ hs'[h].pc = "done" /\ ~hs'[h].err =>
      \A i \in NewlyRead : \E k \in 1..Len(hs[h].list) : hs[h].list[k] = i

C36_MarkedWereReturned == [][C36_Step]_vars


-----------------------------------------------------------------------------
\* The edges that are accepted after the step and were not before it.
NewlyAccepted ==
  {f \in friendships' :
     /\ f.status = "accepted"
     /\ ~\E g \in friendships : g.id = f.id /\ g.status = "accepted"}

\* The accept request whose save() the step applies to edge f.
AcceptSteps(f) ==
  {h \in 1..Len(hs) : /\ hs[h].ev = "friend-accept"
                      /\ hs[h].pc = "fa_save" /\ hs'[h].pc = "fa_populate"
                      /\ hs[h].fid = f.id}

\* An edge turns accepted only from pending, by an accept of its recipient.
C37_ByRecipientWhilePending ==
  \A f \in NewlyAccepted :
    /\ \E g \in friendships :
         /\ g.id = f.id /\ g.status = "pending"
         /\ g.requester = f.requester /\ g.recipient = f.recipient
    /\ \E h \in AcceptSteps(f) : hs[h].a = f.recipient

\* The user whose accept turns an edge accepted is not its requester.
C37_NotByRequester ==
  \A f \in NewlyAccepted : \A h \in AcceptSteps(f) : hs[h].a # f.requester

\* The edge a decline or a remove has deleted is not accepted afterwards.
C37_DeletedNeverAccepted ==
  \A h \in 1..Len(hs) :
    hs[h].ev \in {"friend-decline", "remove-friend"} /\ Done(h) /\ hs[h].res = 200 =>
      \A f \in friendships : f.id = hs[h].fid => f.status # "accepted"

\* C37: an edge reaches accepted only through an accept made by its recipient
\* while it is pending; its requester cannot accept it; an edge deleted by a
\* decline or a remove never becomes accepted.
C37_AcceptedOnlyByRecipient ==
  /\ [][C37_ByRecipientWhilePending /\ C37_NotByRequester]_vars
  /\ []C37_DeletedNeverAccepted


-----------------------------------------------------------------------------
LikeHandlers == {h \in 1..Len(hs) : hs[h].ev = "like"}

\* Each user appears at most once in the likes of every post.
C38_AtMostOnce ==
  \A id \in DOMAIN posts :
    \A j, k \in 1..Len(posts[id].likes) :
      posts[id].likes[j] = posts[id].likes[k] => j = k

\* Two consecutive like requests of one user with nothing in between: the
\* first loaded the post, saved it and answered 200; the second loaded what the
\* first saved and saves in this step onto the version it loaded. The likers
\* after the second save are the likers the first request found.
C38_TwiceStep ==
  \A h1, h2 \in LikeHandlers :
    ( /\ h1 # h2 /\ hs[h1].a = hs[h2].a /\ hs[h1].b = hs[h2].b
      /\ Done(h1) /\ hs[h1].res = 200
      /\ hs[h2].pc = "pl_save" /\ hs'[h2].pc = "pl_populate"
      /\ hs[h2].post.v = hs[h1].post.v + 1
      /\ posts[hs[h2].b].v = hs[h2].post.v )
    => Likers(posts'[hs[h2].b].likes) = Likers(hs[h1].post.likes)

\* C38: after any sequence and interleaving of like requests each user appears
\* at most once in a post's likes, and two consecutive like requests by the
\* same user with nothing in between leave the set of likers unchanged.
C38_LikeIsAToggle == []C38_AtMostOnce /\ [][C38_TwiceStep]_vars

=============================================================================
